----------------------------- MODULE StackBuffer -----------------------------
(***************************************************************************)
(* The buffer in which FastProcessor keeps the operand stack.  The live    *)
(* stack occupies stack[stack_bot_idx .. stack_top_idx - 1]; the last      *)
(* element is the top.  The buffer is never bounds-checked on a read of    *)
(* the top MIN_STACK_DEPTH elements, and a drop at the minimum depth just  *)
(* slides both indices down one cell: the zero the program then sees is    *)
(* whatever that cell holds.                                               *)
(*                                                                         *)
(* One action per StackInterface operation; the cases in which the buffer  *)
(* is grown or the live stack is moved inside it are actions of their own. *)
(***************************************************************************)
EXTENDS Integers, Sequences

CONSTANTS
    Felt, Zero,                  \* field elements, and ZERO
    MIN_STACK_DEPTH,             \* 16
    INITIAL_STACK_TOP_IDX,       \* 250
    INITIAL_STACK_BUFFER_SIZE,   \* 6850
    MaxStackDepth,               \* ExecutionOptions::max_stack_depth
    MaxContexts                  \* bound on nested contexts

ASSUME ZeroAssumption == Zero \in Felt
ASSUME MinDepthAssumption == MIN_STACK_DEPTH \in Nat \ {0}
ASSUME TopIdxAssumption ==
    /\ INITIAL_STACK_TOP_IDX \in Nat
    /\ INITIAL_STACK_TOP_IDX > MIN_STACK_DEPTH
ASSUME BufferSizeAssumption ==
    /\ INITIAL_STACK_BUFFER_SIZE \in Nat
    /\ INITIAL_STACK_BUFFER_SIZE > INITIAL_STACK_TOP_IDX
ASSUME MaxDepthAssumption ==
    /\ MaxStackDepth \in Nat
    /\ MaxStackDepth >= MIN_STACK_DEPTH
ASSUME MaxContextsAssumption == MaxContexts \in Nat

VARIABLES
    stack,                       \* the buffer, a function on 0..(stack_len - 1)
    stack_len,                   \* its length
    stack_top_idx,
    stack_bot_idx,
    stack_overflow_save_stack,   \* the overflow of each suspended context
    saved_overflow_len,          \* its running total
    error                        \* the error that stopped execution, or "none"

vars == <<stack, stack_len, stack_top_idx, stack_bot_idx,
          stack_overflow_save_stack, saved_overflow_len, error>>

saves == <<stack_overflow_save_stack, saved_overflow_len>>

STACK_BUFFER_BASE_IDX == INITIAL_STACK_TOP_IDX - MIN_STACK_DEPTH

Errors == {"none", "StackDepthLimitExceeded", "InvalidStackDepthOnReturn"}

stack_size == stack_top_idx - stack_bot_idx

\* stack_get_safe: reads below cell 0 are ZERO; reads between cell 0 and the
\* bottom of the stack see the buffer itself.
stack_get_safe(idx) ==
    IF idx < stack_top_idx THEN stack[stack_top_idx - idx - 1] ELSE Zero

Init ==
    /\ stack_len = INITIAL_STACK_BUFFER_SIZE
    /\ stack_top_idx = INITIAL_STACK_TOP_IDX
    /\ stack_bot_idx = STACK_BUFFER_BASE_IDX
    /\ \E inputs \in [STACK_BUFFER_BASE_IDX..(INITIAL_STACK_TOP_IDX - 1) -> Felt] :
         stack = [i \in 0..(INITIAL_STACK_BUFFER_SIZE - 1) |->
                    IF i \in STACK_BUFFER_BASE_IDX..(INITIAL_STACK_TOP_IDX - 1)
                      THEN inputs[i] ELSE Zero]
    /\ stack_overflow_save_stack = <<>>
    /\ saved_overflow_len = 0
    /\ error = "none"

-----------------------------------------------------------------------------
(* Growing the buffer and moving the live stack inside it                  *)

max_len == STACK_BUFFER_BASE_IDX + MaxStackDepth + 1

AtMost(a, b) == IF a <= b THEN a ELSE b

AtLeast(a, b) == IF a >= b THEN a ELSE b

\* Mutant: growth doubles without looking at max_stack_depth.
uncapped_len(requested_min_len) ==
    AtLeast(2 * (STACK_BUFFER_BASE_IDX + stack_size + 2), requested_min_len)

\* The length of the buffer grow_stack_buffer allocates.
grown_len(requested_min_len) ==
    AtMost(AtLeast(2 * (STACK_BUFFER_BASE_IDX + stack_size + 2), requested_min_len),
           max_len)

\* The buffer grow_stack_buffer leaves: the live stack at the base, zeros elsewhere.
grown_stack(requested_min_len) ==
    [i \in 0..(grown_len(requested_min_len) - 1) |->
       IF /\ i >= STACK_BUFFER_BASE_IDX
          /\ i < STACK_BUFFER_BASE_IDX + stack_size
         THEN stack[stack_bot_idx + (i - STACK_BUFFER_BASE_IDX)]
         ELSE Zero]

\* reset_stack_in_buffer applied to buffer buf whose live stack, of exactly
\* MIN_STACK_DEPTH elements, starts at cell bot.  Cells from the new top up
\* keep what they held.
reset_stack(buf, bot, new_top) ==
    LET new_bot == new_top - MIN_STACK_DEPTH
    IN  [i \in DOMAIN buf |->
           IF i < new_bot THEN Zero
           ELSE IF i < new_top THEN buf[bot + (i - new_bot)]
           ELSE buf[i]]

\* Mutant: the cells below bot are taken to hold the overflow still.
with_overflow_left_alone(buf, bot, overflow) == buf

\* The overflow of the suspended context put back right below cell bot.
with_overflow(buf, bot, overflow) ==
    [i \in DOMAIN buf |->
       IF /\ i >= bot - Len(overflow)
          /\ i < bot
         THEN overflow[i - (bot - Len(overflow)) + 1]
         ELSE buf[i]]
-----------------------------------------------------------------------------
(* Operations of the program on the stack                                  *)

\* Mutant: the limit is checked against the active context only.
CanPushActiveOnly == stack_size + 1 <= MaxStackDepth

CanPush == stack_size + saved_overflow_len + 1 <= MaxStackDepth

\* Mutant: the capacity check is off by one.
PushInPlaceLate(v) ==
    /\ error = "none"
    /\ CanPush
    /\ stack_top_idx <= stack_len - 1
    /\ stack' = [stack EXCEPT ![stack_top_idx] = v]
    /\ stack_top_idx' = stack_top_idx + 1
    /\ UNCHANGED <<stack_len, stack_bot_idx, saves, error>>

PushInPlace(v) ==
    /\ error = "none"
    /\ CanPush
    /\ stack_top_idx < stack_len - 1
    /\ stack' = [stack EXCEPT ![stack_top_idx] = v]
    /\ stack_top_idx' = stack_top_idx + 1
    /\ UNCHANGED <<stack_len, stack_bot_idx, saves, error>>

PushGrow(v) ==
    LET new_top == STACK_BUFFER_BASE_IDX + stack_size
    IN  /\ error = "none"
        /\ CanPush
        /\ stack_top_idx >= stack_len - 1
        /\ stack_len' = grown_len(stack_top_idx + 2)
        /\ stack' = [grown_stack(stack_top_idx + 2) EXCEPT ![new_top] = v]
        /\ stack_bot_idx' = STACK_BUFFER_BASE_IDX
        /\ stack_top_idx' = new_top + 1
        /\ UNCHANGED <<saves, error>>

PushOverLimit ==
    /\ error = "none"
    /\ ~CanPush
    /\ error' = "StackDepthLimitExceeded"
    /\ UNCHANGED <<stack, stack_len, stack_top_idx, stack_bot_idx, saves>>

DropInPlace ==
    /\ error = "none"
    /\ stack_top_idx # MIN_STACK_DEPTH
    /\ stack_top_idx' = stack_top_idx - 1
    /\ stack_bot_idx' = AtMost(stack_bot_idx, stack_top_idx - 1 - MIN_STACK_DEPTH)
    /\ UNCHANGED <<stack, stack_len, saves, error>>

DropReset ==
    /\ error = "none"
    /\ stack_top_idx = MIN_STACK_DEPTH
    /\ stack' = reset_stack(stack, stack_bot_idx, INITIAL_STACK_TOP_IDX)
    /\ stack_top_idx' = INITIAL_STACK_TOP_IDX - 1
    /\ stack_bot_idx' = AtMost(STACK_BUFFER_BASE_IDX,
                               INITIAL_STACK_TOP_IDX - 1 - MIN_STACK_DEPTH)
    /\ UNCHANGED <<stack_len, saves, error>>

Set(idx, v) ==
    /\ error = "none"
    /\ stack' = [stack EXCEPT ![stack_top_idx - idx - 1] = v]
    /\ UNCHANGED <<stack_len, stack_top_idx, stack_bot_idx, saves, error>>

Swap(idx1, idx2) ==
    /\ error = "none"
    /\ stack' = [stack EXCEPT
                   ![stack_top_idx - idx1 - 1] = stack[stack_top_idx - idx2 - 1],
                   ![stack_top_idx - idx2 - 1] = stack[stack_top_idx - idx1 - 1]]
    /\ UNCHANGED <<stack_len, stack_top_idx, stack_bot_idx, saves, error>>

\* The n-th element from the top moves to the top.
RotateLeft(n) ==
    LET bot == stack_top_idx - n
    IN  /\ error = "none"
        /\ stack' = [i \in DOMAIN stack |->
                       IF i >= bot /\ i < stack_top_idx - 1 THEN stack[i + 1]
                       ELSE IF i = stack_top_idx - 1 THEN stack[bot]
                       ELSE stack[i]]
        /\ UNCHANGED <<stack_len, stack_top_idx, stack_bot_idx, saves, error>>

\* The top element moves n - 1 places down.
RotateRight(n) ==
    LET bot == stack_top_idx - n
    IN  /\ error = "none"
        /\ stack' = [i \in DOMAIN stack |->
                       IF i > bot /\ i < stack_top_idx THEN stack[i - 1]
                       ELSE IF i = bot THEN stack[stack_top_idx - 1]
                       ELSE stack[i]]
        /\ UNCHANGED <<stack_len, stack_top_idx, stack_bot_idx, saves, error>>
-----------------------------------------------------------------------------
(* Context switches: call, dyncall and syscall, and their returns          *)

\* Mutant: the cells of the saved overflow are not cleared.
StartContextDirty ==
    LET new_bot == stack_top_idx - MIN_STACK_DEPTH
        overflow == [i \in 1..(new_bot - stack_bot_idx) |-> stack[stack_bot_idx + i - 1]]
    IN  /\ error = "none"
        /\ Len(stack_overflow_save_stack) < MaxContexts
        /\ stack_bot_idx' = new_bot
        /\ saved_overflow_len' = saved_overflow_len + (new_bot - stack_bot_idx)
        /\ stack_overflow_save_stack' = Append(stack_overflow_save_stack, overflow)
        /\ UNCHANGED <<stack, stack_len, stack_top_idx, error>>

StartContext ==
    LET new_bot == stack_top_idx - MIN_STACK_DEPTH
        overflow == [i \in 1..(new_bot - stack_bot_idx) |-> stack[stack_bot_idx + i - 1]]
    IN  /\ error = "none"
        /\ Len(stack_overflow_save_stack) < MaxContexts
        /\ stack' = [i \in DOMAIN stack |->
                       IF i >= stack_bot_idx /\ i < new_bot THEN Zero ELSE stack[i]]
        /\ stack_bot_idx' = new_bot
        /\ saved_overflow_len' = saved_overflow_len + (new_bot - stack_bot_idx)
        /\ stack_overflow_save_stack' = Append(stack_overflow_save_stack, overflow)
        /\ UNCHANGED <<stack_len, stack_top_idx, error>>

\* The segment restore_context pops.  The interpreter only returns from a
\* context it started, so there is one.
target_overflow == stack_overflow_save_stack[Len(stack_overflow_save_stack)]

Returning ==
    /\ error = "none"
    /\ stack_overflow_save_stack # <<>>
    /\ stack_size <= MIN_STACK_DEPTH

PopSaved ==
    /\ stack_overflow_save_stack' =
         [i \in 1..(Len(stack_overflow_save_stack) - 1) |-> stack_overflow_save_stack[i]]
    /\ saved_overflow_len' = saved_overflow_len - Len(target_overflow)
    /\ UNCHANGED error

\* Mutant: the bottom index is not moved down over the overflow put back.
RestoreInPlaceKeepBottom ==
    /\ Returning
    /\ Len(target_overflow) <= stack_bot_idx
    /\ stack' = with_overflow(stack, stack_bot_idx, target_overflow)
    /\ PopSaved
    /\ UNCHANGED <<stack_len, stack_top_idx, stack_bot_idx>>

RestoreInPlace ==
    /\ Returning
    /\ Len(target_overflow) <= stack_bot_idx
    /\ stack' = with_overflow(stack, stack_bot_idx, target_overflow)
    /\ stack_bot_idx' = stack_bot_idx - Len(target_overflow)
    /\ PopSaved
    /\ UNCHANGED <<stack_len, stack_top_idx>>

RestoreReset ==
    LET new_top == INITIAL_STACK_TOP_IDX + Len(target_overflow)
    IN  /\ Returning
        /\ Len(target_overflow) > stack_bot_idx
        /\ new_top < stack_len
        /\ stack' = with_overflow(reset_stack(stack, stack_bot_idx, new_top),
                                  new_top - MIN_STACK_DEPTH, target_overflow)
        /\ stack_top_idx' = new_top
        /\ stack_bot_idx' = new_top - MIN_STACK_DEPTH - Len(target_overflow)
        /\ PopSaved
        /\ UNCHANGED stack_len

RestoreGrow ==
    LET new_top == INITIAL_STACK_TOP_IDX + Len(target_overflow)
    IN  /\ Returning
        /\ Len(target_overflow) > stack_bot_idx
        /\ new_top >= stack_len
        /\ stack_len' = grown_len(new_top + 1)
        /\ stack' = with_overflow(
                      reset_stack(grown_stack(new_top + 1), STACK_BUFFER_BASE_IDX, new_top),
                      new_top - MIN_STACK_DEPTH, target_overflow)
        /\ stack_top_idx' = new_top
        /\ stack_bot_idx' = new_top - MIN_STACK_DEPTH - Len(target_overflow)
        /\ PopSaved

RestoreTooDeep ==
    /\ error = "none"
    /\ stack_overflow_save_stack # <<>>
    /\ stack_size > MIN_STACK_DEPTH
    /\ error' = "InvalidStackDepthOnReturn"
    /\ UNCHANGED <<stack, stack_len, stack_top_idx, stack_bot_idx, saves>>
-----------------------------------------------------------------------------
Next ==
    \/ \E v \in Felt : PushInPlace(v) \/ PushGrow(v)
    \/ PushOverLimit
    \/ DropInPlace
    \/ DropReset
    \/ \E idx \in 0..(MIN_STACK_DEPTH - 1), v \in Felt : Set(idx, v)
    \/ \E i, j \in 0..(MIN_STACK_DEPTH - 1) : Swap(i, j)
    \/ \E n \in 1..MIN_STACK_DEPTH : RotateLeft(n) \/ RotateRight(n)
    \/ StartContext
    \/ RestoreInPlace
    \/ RestoreReset
    \/ RestoreGrow
    \/ RestoreTooDeep

Spec == Init /\ [][Next]_vars
-----------------------------------------------------------------------------
(* Properties                                                              *)

\* The types of the buffer, of its indices and of the saved overflow.
TypeOK ==
    /\ stack_len \in Nat
    /\ stack \in [0..(stack_len - 1) -> Felt]
    /\ stack_top_idx \in Nat
    /\ stack_bot_idx \in Nat
    /\ stack_overflow_save_stack \in Seq(Seq(Felt))
    /\ saved_overflow_len \in Nat
    /\ error \in Errors

\* Every unchecked access of an operation to one of the top MIN_STACK_DEPTH
\* elements is inside the buffer, and so is the cell the next reset or push
\* writes: neither growing, nor moving the stack, nor dropping below the
\* minimum depth takes an index out of the allocation.
LiveStackInBuffer ==
    /\ stack_bot_idx + MIN_STACK_DEPTH <= stack_top_idx
    /\ stack_top_idx < stack_len
    /\ INITIAL_STACK_TOP_IDX < stack_len

\* The cells under the live stack are zero, so a drop at the minimum depth
\* pulls in ZERO and stack_get_safe reads ZERO past the end of the stack of
\* the current context, never what another context left in the buffer.
BelowBottomIsZero ==
    \A idx \in 0..(stack_top_idx + 1) :
        idx >= stack_size => stack_get_safe(idx) = Zero

\* saved_overflow_len is the number of elements held in all the suspended
\* segments: f runs through its partial sums.
SavedLenIsTotal ==
    \E f \in [0..Len(stack_overflow_save_stack) -> 0..MaxStackDepth] :
        /\ f[0] = 0
        /\ f[Len(stack_overflow_save_stack)] = saved_overflow_len
        /\ \A k \in 1..Len(stack_overflow_save_stack) :
             f[k] = f[k - 1] + Len(stack_overflow_save_stack[k])

\* The elements of the active context and those of every suspended one
\* together stay within max_stack_depth: nesting contexts does not let a
\* program hold more, and the debug assertion of restore_context holds.
AggregateDepthBounded ==
    /\ SavedLenIsTotal
    /\ stack_size + saved_overflow_len <= MaxStackDepth

\* The allocation never exceeds what max_stack_depth asks for, or the size
\* it started with.
AllocationCapped == stack_len <= AtLeast(INITIAL_STACK_BUFFER_SIZE, max_len)

\* A context switch moves elements between the active stack and the saved
\* overflow and creates none: the aggregate depth changes only in a push or
\* in a drop above the minimum depth, by one.
SwitchConservesDepth ==
    [][LET before == stack_size + saved_overflow_len
           after  == stack_size' + saved_overflow_len'
       IN  IF stack_overflow_save_stack' # stack_overflow_save_stack
             THEN after = before
             ELSE after \in {before - 1, before, before + 1}]_vars

\* The buffer implements the operand stack: whatever the buffer does with its
\* cells, the program sees the elements it pushed, zeros below them, and its
\* own overflow again after a call returns.
Abstract == INSTANCE OperandStack WITH
    stk       <- [i \in 1..stack_size |-> stack[stack_bot_idx + i - 1]],
    hidden    <- stack_overflow_save_stack,
    hiddenLen <- saved_overflow_len

ImplementsOperandStack == Abstract!Spec
=============================================================================
