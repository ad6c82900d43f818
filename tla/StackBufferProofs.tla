-------------------------- MODULE StackBufferProofs --------------------------
(***************************************************************************)
(* Proofs about StackBuffer, for every buffer size, minimum depth, initial *)
(* position and depth limit, and that it implements OperandStack.          *)
(***************************************************************************)
EXTENDS StackBuffer, TLAPS

USE DEF STACK_BUFFER_BASE_IDX, stack_size

\* BelowBottomIsZero in terms of cells.
ZeroBelow == \A i \in 0..(stack_bot_idx - 1) : stack[i] = Zero

\* The inductive invariant.
IInv ==
    /\ TypeOK
    /\ LiveStackInBuffer
    /\ ZeroBelow
    /\ AggregateDepthBounded
    /\ AllocationCapped

\* What the assumptions on the constants give the arithmetic.
LEMMA Constants ==
    /\ Zero \in Felt
    /\ MIN_STACK_DEPTH \in Nat /\ MIN_STACK_DEPTH >= 1
    /\ INITIAL_STACK_TOP_IDX \in Nat /\ INITIAL_STACK_TOP_IDX > MIN_STACK_DEPTH
    /\ INITIAL_STACK_BUFFER_SIZE \in Nat
    /\ INITIAL_STACK_BUFFER_SIZE > INITIAL_STACK_TOP_IDX
    /\ MaxStackDepth \in Nat /\ MaxStackDepth >= MIN_STACK_DEPTH
    /\ max_len \in Nat
BY ZeroAssumption, MinDepthAssumption, TopIdxAssumption, BufferSizeAssumption,
   MaxDepthAssumption DEF max_len

\* The processor starts with the initial buffer, zero outside the inputs.
LEMMA InitIInv == Init => IInv
<1> SUFFICES ASSUME Init PROVE IInv
  OBVIOUS
<1> USE Constants
<1>1. TypeOK
  BY DEF Init, TypeOK, Errors
<1>2. LiveStackInBuffer /\ ZeroBelow /\ AllocationCapped
  BY DEF Init, LiveStackInBuffer, ZeroBelow, AllocationCapped, AtLeast
<1>3. AggregateDepthBounded
  <2> DEFINE f == [k \in {0} |-> 0]
  <2>1. f \in [0..Len(stack_overflow_save_stack) -> 0..MaxStackDepth]
    BY DEF Init
  <2>2. SavedLenIsTotal
    BY <2>1 DEF Init, SavedLenIsTotal
  <2> QED
    BY <2>2 DEF Init, AggregateDepthBounded
<1> QED
  BY <1>1, <1>2, <1>3 DEF IInv

\* A grown buffer holds the live stack at the base and one more element, and
\* no growth goes past max_len.
LEMMA GrownLen ==
    ASSUME TypeOK, LiveStackInBuffer, stack_size + 1 <= MaxStackDepth,
           NEW req \in Nat
    PROVE  /\ grown_len(req) \in Nat
           /\ grown_len(req) <= max_len
           /\ grown_len(req) >= STACK_BUFFER_BASE_IDX + stack_size + 2
           /\ req <= max_len => grown_len(req) >= req
BY Constants DEF grown_len, AtMost, AtLeast, max_len, TypeOK, LiveStackInBuffer

\* The grown buffer holds the live stack at the base and zeros elsewhere.
LEMMA GrownStack ==
    ASSUME TypeOK, LiveStackInBuffer, stack_size + 1 <= MaxStackDepth,
           NEW req \in Nat
    PROVE  grown_stack(req) \in [0..(grown_len(req) - 1) -> Felt]
<1> SUFFICES ASSUME NEW i \in 0..(grown_len(req) - 1)
             PROVE  (IF /\ i >= STACK_BUFFER_BASE_IDX
                        /\ i < STACK_BUFFER_BASE_IDX + stack_size
                       THEN stack[stack_bot_idx + (i - STACK_BUFFER_BASE_IDX)]
                       ELSE Zero) \in Felt
  BY DEF grown_stack
<1>1. grown_len(req) \in Nat
  BY GrownLen
<1> QED
  BY <1>1, Constants DEF TypeOK, LiveStackInBuffer

\* Moving a live stack of the minimum depth leaves zeros under it.
LEMMA ResetStack ==
    ASSUME NEW len \in Nat, NEW buf \in [0..(len - 1) -> Felt], NEW bot \in Nat,
           NEW new_top \in Nat,
           bot + MIN_STACK_DEPTH <= len, MIN_STACK_DEPTH <= new_top, new_top < len
    PROVE  /\ reset_stack(buf, bot, new_top) \in [0..(len - 1) -> Felt]
           /\ \A i \in 0..(new_top - MIN_STACK_DEPTH - 1) :
                reset_stack(buf, bot, new_top)[i] = Zero
BY Constants DEF reset_stack

\* The running total depends on nothing but the saved overflow.
LEMMA SavedLenFrame ==
    ASSUME SavedLenIsTotal, UNCHANGED saves
    PROVE  SavedLenIsTotal'
BY DEF SavedLenIsTotal, saves

\* An operation that leaves the indices and the saved overflow alone and
\* writes only live cells preserves the invariant.
LEMMA RewriteIInv ==
    ASSUME IInv,
           UNCHANGED <<stack_len, stack_top_idx, stack_bot_idx, saves, error>>,
           stack' \in [0..(stack_len - 1) -> Felt],
           \A i \in 0..(stack_bot_idx - 1) : stack'[i] = stack[i]
    PROVE  IInv'
<1> USE Constants DEF IInv, saves
<1>1. TypeOK'
  BY DEF TypeOK
<1>2. LiveStackInBuffer' /\ AllocationCapped'
  BY DEF LiveStackInBuffer, AllocationCapped, max_len, AtLeast
<1>3. ZeroBelow'
  BY DEF ZeroBelow, TypeOK
<1>4. AggregateDepthBounded'
  BY SavedLenFrame DEF AggregateDepthBounded
<1> QED
  BY <1>1, <1>2, <1>3, <1>4

\* The four operations that rewrite the top of the stack in place.
LEMMA InPlaceIInv ==
    ASSUME IInv,
           \/ \E idx \in 0..(MIN_STACK_DEPTH - 1), v \in Felt : Set(idx, v)
           \/ \E i, j \in 0..(MIN_STACK_DEPTH - 1) : Swap(i, j)
           \/ \E n \in 1..MIN_STACK_DEPTH : RotateLeft(n) \/ RotateRight(n)
    PROVE  IInv'
<1> USE Constants
<1>0. TypeOK /\ LiveStackInBuffer
  BY DEF IInv
<1>1. ASSUME NEW idx \in 0..(MIN_STACK_DEPTH - 1), NEW v \in Felt, Set(idx, v)
      PROVE  IInv'
  <2>1. /\ stack' \in [0..(stack_len - 1) -> Felt]
        /\ \A i \in 0..(stack_bot_idx - 1) : stack'[i] = stack[i]
    BY <1>0, <1>1 DEF Set, TypeOK, LiveStackInBuffer
  <2> QED
    BY <1>1, <2>1, RewriteIInv DEF Set
<1>2. ASSUME NEW i \in 0..(MIN_STACK_DEPTH - 1), NEW j \in 0..(MIN_STACK_DEPTH - 1),
             Swap(i, j)
      PROVE  IInv'
  <2> DEFINE a == stack_top_idx - i - 1
             b == stack_top_idx - j - 1
             s == [stack EXCEPT ![a] = stack[b]]
  <2>a. /\ a \in 0..(stack_len - 1) /\ a >= stack_bot_idx
        /\ b \in 0..(stack_len - 1) /\ b >= stack_bot_idx
    BY <1>0 DEF TypeOK, LiveStackInBuffer
  <2>b. stack' = [s EXCEPT ![b] = stack[a]]
    BY <1>2 DEF Swap
  <2> HIDE DEF a, b
  <2>c. /\ s \in [0..(stack_len - 1) -> Felt]
        /\ \A k \in 0..(stack_bot_idx - 1) : s[k] = stack[k]
    BY <1>0, <2>a DEF TypeOK
  <2> HIDE DEF s
  <2>1. /\ stack' \in [0..(stack_len - 1) -> Felt]
        /\ \A k \in 0..(stack_bot_idx - 1) : stack'[k] = stack[k]
    BY <1>0, <2>a, <2>b, <2>c DEF TypeOK
  <2> QED
    BY <1>2, <2>1, RewriteIInv DEF Swap
<1>3. ASSUME NEW n \in 1..MIN_STACK_DEPTH, RotateLeft(n)
      PROVE  IInv'
  <2>1. /\ stack' \in [0..(stack_len - 1) -> Felt]
        /\ \A k \in 0..(stack_bot_idx - 1) : stack'[k] = stack[k]
    BY <1>0, <1>3 DEF RotateLeft, TypeOK, LiveStackInBuffer
  <2> QED
    BY <1>3, <2>1, RewriteIInv DEF RotateLeft
<1>4. ASSUME NEW n \in 1..MIN_STACK_DEPTH, RotateRight(n)
      PROVE  IInv'
  <2>1. /\ stack' \in [0..(stack_len - 1) -> Felt]
        /\ \A k \in 0..(stack_bot_idx - 1) : stack'[k] = stack[k]
    BY <1>0, <1>4 DEF RotateRight, TypeOK, LiveStackInBuffer
  <2> QED
    BY <1>4, <2>1, RewriteIInv DEF RotateRight
<1> QED
  BY <1>1, <1>2, <1>3, <1>4

\* A push, in place or into a grown buffer.
LEMMA PushIInv ==
    ASSUME IInv, NEW v \in Felt, PushInPlace(v) \/ PushGrow(v)
    PROVE  IInv'
<1> USE Constants
<1>0. TypeOK /\ LiveStackInBuffer /\ ZeroBelow /\ AllocationCapped
  BY DEF IInv
<1>1. AggregateDepthBounded'
  <2>1. SavedLenIsTotal'
    BY SavedLenFrame DEF IInv, AggregateDepthBounded, PushInPlace, PushGrow
  <2>2. stack_size' + saved_overflow_len' <= MaxStackDepth
    BY <1>0 DEF TypeOK, LiveStackInBuffer, PushInPlace, PushGrow, CanPush, saves
  <2> QED
    BY <2>1, <2>2 DEF AggregateDepthBounded
<1>2. CASE PushInPlace(v)
  <2>1. TypeOK'
    BY <1>0, <1>2 DEF PushInPlace, TypeOK, saves, LiveStackInBuffer
  <2>2. LiveStackInBuffer' /\ AllocationCapped' /\ ZeroBelow'
    BY <1>0, <1>2 DEF PushInPlace, TypeOK, LiveStackInBuffer, AllocationCapped,
                      ZeroBelow, max_len
  <2> QED
    BY <1>1, <2>1, <2>2 DEF IInv
<1>3. CASE PushGrow(v)
  <2> DEFINE req == stack_top_idx + 2
             new_top == STACK_BUFFER_BASE_IDX + stack_size
  <2>1. stack_size + 1 <= MaxStackDepth /\ req \in Nat /\ stack_size \in Nat
    BY <1>0, <1>3 DEF PushGrow, CanPush, TypeOK, LiveStackInBuffer
  <2>2. /\ grown_len(req) \in Nat
        /\ grown_len(req) <= max_len
        /\ grown_len(req) >= new_top + 2
    BY <1>0, <2>1, GrownLen
  <2>3. grown_stack(req) \in [0..(grown_len(req) - 1) -> Felt]
    BY <1>0, <2>1, GrownStack
  <2>4. TypeOK'
    BY <1>0, <1>3, <2>1, <2>2, <2>3 DEF PushGrow, TypeOK, saves
  <2>5. LiveStackInBuffer' /\ AllocationCapped'
    BY <1>0, <1>3, <2>1, <2>2 DEF PushGrow, LiveStackInBuffer, AllocationCapped,
                                  AtLeast, max_len, TypeOK
  <2>6. ZeroBelow'
    BY <1>0, <1>3, <2>1, <2>2 DEF PushGrow, ZeroBelow, grown_stack, TypeOK
  <2> QED
    BY <1>1, <2>4, <2>5, <2>6 DEF IInv
<1> QED
  BY <1>2, <1>3

\* A drop, with the indices sliding down or the stack moved back to the base.
LEMMA DropIInv ==
    ASSUME IInv, DropInPlace \/ DropReset
    PROVE  IInv'
<1> USE Constants
<1>0. TypeOK /\ LiveStackInBuffer /\ ZeroBelow /\ AllocationCapped
  BY DEF IInv
<1>1. TypeOK' /\ LiveStackInBuffer' /\ AllocationCapped'
  <2>1. CASE DropInPlace
    BY <1>0, <2>1 DEF DropInPlace, TypeOK, saves, LiveStackInBuffer,
                      AllocationCapped, max_len, AtMost, AtLeast
  <2>2. CASE DropReset
    <3>1. stack' \in [0..(stack_len - 1) -> Felt]
      BY <1>0, <2>2 DEF DropReset, reset_stack, TypeOK, LiveStackInBuffer
    <3> QED
      BY <1>0, <2>2, <3>1 DEF DropReset, TypeOK, saves, LiveStackInBuffer,
                        AllocationCapped, max_len, AtMost, AtLeast
  <2> QED
    BY <2>1, <2>2
<1>2. ZeroBelow'
  BY <1>0 DEF DropInPlace, DropReset, ZeroBelow, reset_stack, TypeOK,
              LiveStackInBuffer, AtMost
<1>3. AggregateDepthBounded'
  <2>1. SavedLenIsTotal'
    BY SavedLenFrame DEF IInv, AggregateDepthBounded, DropInPlace, DropReset
  <2>2. stack_size' + saved_overflow_len' <= MaxStackDepth
    BY SMTT(30) DEF IInv, AggregateDepthBounded, TypeOK, LiveStackInBuffer, DropInPlace,
           DropReset, saves, AtMost
  <2> QED
    BY <2>1, <2>2 DEF AggregateDepthBounded
<1> QED
  BY <1>1, <1>2, <1>3 DEF IInv

\* Starting a context zeroes the cells the saved overflow leaves.
LEMMA StartContextIInv ==
    ASSUME IInv, StartContext
    PROVE  IInv'
<1> USE Constants
<1>0. TypeOK /\ LiveStackInBuffer /\ ZeroBelow /\ AllocationCapped
  BY DEF IInv
<1> DEFINE n == stack_top_idx - MIN_STACK_DEPTH - stack_bot_idx
           overflow == [i \in 1..n |-> stack[stack_bot_idx + i - 1]]
           m == Len(stack_overflow_save_stack)
<1>1. n \in Nat /\ m \in Nat
  BY <1>0 DEF TypeOK, LiveStackInBuffer
<1>2. overflow \in Seq(Felt) /\ Len(overflow) = n
  <2>1. \A i \in 1..n : stack[stack_bot_idx + i - 1] \in Felt
    BY <1>0, <1>1 DEF TypeOK, LiveStackInBuffer
  <2> QED
    BY <1>1, <2>1
<1>3. /\ stack_overflow_save_stack' = Append(stack_overflow_save_stack, overflow)
      /\ saved_overflow_len' = saved_overflow_len + n
      /\ stack_bot_idx' = stack_bot_idx + n
      /\ UNCHANGED <<stack_len, stack_top_idx, error>>
  BY <1>0 DEF StartContext, TypeOK
<1>4. /\ stack' \in [0..(stack_len - 1) -> Felt]
      /\ \A i \in 0..(stack_len - 1) :
           stack'[i] = IF i >= stack_bot_idx /\ i < stack_bot_idx + n THEN Zero ELSE stack[i]
  BY <1>0 DEF StartContext, TypeOK, LiveStackInBuffer
<1> HIDE DEF overflow
<1>5. /\ stack_overflow_save_stack' \in Seq(Seq(Felt))
      /\ Len(stack_overflow_save_stack') = m + 1
      /\ \A k \in 1..m : stack_overflow_save_stack'[k] = stack_overflow_save_stack[k]
      /\ stack_overflow_save_stack'[m + 1] = overflow
  BY <1>0, <1>2, <1>3 DEF TypeOK
<1>6. TypeOK'
  BY <1>0, <1>1, <1>3, <1>4, <1>5 DEF TypeOK
<1>7. LiveStackInBuffer' /\ AllocationCapped'
  BY <1>0, <1>1, <1>3 DEF LiveStackInBuffer, AllocationCapped, max_len, AtLeast, TypeOK
<1>8. ZeroBelow'
  BY <1>0, <1>1, <1>3, <1>4 DEF ZeroBelow, TypeOK, LiveStackInBuffer
<1>9. stack_size' + saved_overflow_len' <= MaxStackDepth
  BY <1>0, <1>1, <1>3 DEF IInv, AggregateDepthBounded, TypeOK
<1>10. SavedLenIsTotal'
  <2>1. PICK f \in [0..m -> 0..MaxStackDepth] :
               /\ f[0] = 0
               /\ f[m] = saved_overflow_len
               /\ \A k \in 1..m : f[k] = f[k - 1] + Len(stack_overflow_save_stack[k])
    BY DEF IInv, AggregateDepthBounded, SavedLenIsTotal
  <2> DEFINE g == [k \in 0..(m + 1) |-> IF k = m + 1 THEN saved_overflow_len + n ELSE f[k]]
  <2>2. saved_overflow_len + n \in 0..MaxStackDepth
    BY <1>0, <1>1, <1>3, <1>7, <1>9 DEF TypeOK, LiveStackInBuffer
  <2>3. g \in [0..Len(stack_overflow_save_stack') -> 0..MaxStackDepth]
    BY <1>1, <1>5, <2>1, <2>2
  <2>4. g[0] = 0 /\ g[m + 1] = saved_overflow_len'
    BY <1>1, <1>3, <2>1
  <2>5. ASSUME NEW k \in 1..(m + 1)
        PROVE  g[k] = g[k - 1] + Len(stack_overflow_save_stack'[k])
    <3>1. CASE k = m + 1
      BY <1>1, <1>2, <1>5, <2>1, <3>1
    <3>2. CASE k \in 1..m
      <4>1. g[k] = f[k] /\ g[k - 1] = f[k - 1]
        BY <1>1, <3>2
      <4>2. stack_overflow_save_stack'[k] = stack_overflow_save_stack[k]
        BY <1>5, <3>2
      <4> HIDE DEF g
      <4> QED
        BY <2>1, <3>2, <4>1, <4>2
    <3> QED
      BY <1>1, <3>1, <3>2
  <2> HIDE DEF g
  <2> QED
    BY <1>5, <2>3, <2>4, <2>5 DEF SavedLenIsTotal
<1> QED
  BY <1>6, <1>7, <1>8, <1>9, <1>10 DEF IInv, AggregateDepthBounded

\* What a return pops: a segment of the running total.
LEMMA PoppedSegment ==
    ASSUME IInv, stack_overflow_save_stack # <<>>, PopSaved
    PROVE  /\ target_overflow \in Seq(Felt)
           /\ Len(target_overflow) \in Nat
           /\ Len(target_overflow) <= saved_overflow_len
           /\ stack_overflow_save_stack' \in Seq(Seq(Felt))
           /\ saved_overflow_len' = saved_overflow_len - Len(target_overflow)
           /\ error' = error
           /\ SavedLenIsTotal'
<1> USE Constants
<1> DEFINE m == Len(stack_overflow_save_stack)
<1>0. TypeOK
  BY DEF IInv
<1>1. m \in Nat /\ m >= 1
  BY <1>0 DEF TypeOK
<1>2. target_overflow \in Seq(Felt) /\ Len(target_overflow) \in Nat
  BY <1>0, <1>1 DEF TypeOK, target_overflow
<1>3. PICK f \in [0..m -> 0..MaxStackDepth] :
             /\ f[0] = 0
             /\ f[m] = saved_overflow_len
             /\ \A k \in 1..m : f[k] = f[k - 1] + Len(stack_overflow_save_stack[k])
  BY DEF IInv, AggregateDepthBounded, SavedLenIsTotal
<1>4. /\ f[m - 1] \in Nat
      /\ saved_overflow_len = f[m - 1] + Len(target_overflow)
  <2>1. m \in 1..m /\ m - 1 \in 0..m
    BY <1>1
  <2>2. f[m] = f[m - 1] + Len(stack_overflow_save_stack[m])
    BY <1>3, <2>1
  <2> QED
    BY <1>3, <2>1, <2>2 DEF target_overflow
<1>5. /\ stack_overflow_save_stack' \in Seq(Seq(Felt))
      /\ Len(stack_overflow_save_stack') = m - 1
      /\ \A k \in 1..(m - 1) : stack_overflow_save_stack'[k] = stack_overflow_save_stack[k]
  <2>1. stack_overflow_save_stack' = [k \in 1..(m - 1) |-> stack_overflow_save_stack[k]]
    BY DEF PopSaved
  <2>2. \A k \in 1..(m - 1) : stack_overflow_save_stack[k] \in Seq(Felt)
    BY <1>0, <1>1 DEF TypeOK
  <2> QED
    BY <1>1, <2>1, <2>2
<1>6. saved_overflow_len' = f[m - 1]
  BY <1>2, <1>4 DEF PopSaved
<1>7. SavedLenIsTotal'
  <2> DEFINE g == [k \in 0..(m - 1) |-> f[k]]
  <2>1. g \in [0..(m - 1) -> 0..MaxStackDepth]
    BY <1>1, <1>3
  <2>2. /\ g[0] = 0
        /\ g[m - 1] = saved_overflow_len'
    BY <1>1, <1>3, <1>6
  <2>3. ASSUME NEW k \in 1..(m - 1)
        PROVE  g[k] = g[k - 1] + Len(stack_overflow_save_stack'[k])
    <3>1. g[k] = f[k] /\ g[k - 1] = f[k - 1]
      BY <1>1
    <3>2. stack_overflow_save_stack'[k] = stack_overflow_save_stack[k] /\ k \in 1..m
      BY <1>1, <1>5
    <3> HIDE DEF g
    <3> QED
      BY <1>3, <3>1, <3>2
  <2> HIDE DEF g
  <2> QED
    BY <1>5, <2>1, <2>2, <2>3 DEF SavedLenIsTotal
<1> QED
  BY <1>2, <1>4, <1>5, <1>7 DEF PopSaved

\* Putting the popped segment back below a live stack of the minimum depth,
\* wherever the buffer buf holds it.
LEMMA PutBackIInv ==
    ASSUME IInv, Returning, PopSaved,
           NEW buf, NEW len \in Nat, NEW bot \in Nat,
           buf \in [0..(len - 1) -> Felt],
           bot + MIN_STACK_DEPTH < len,
           INITIAL_STACK_TOP_IDX < len,
           len <= AtLeast(INITIAL_STACK_BUFFER_SIZE, max_len),
           Len(target_overflow) <= bot,
           \A i \in 0..(bot - 1) : buf[i] = Zero,
           stack' = with_overflow(buf, bot, target_overflow),
           stack_len' = len,
           stack_bot_idx' = bot - Len(target_overflow),
           stack_top_idx' = bot + MIN_STACK_DEPTH
    PROVE  IInv'
<1> USE Constants
<1>1. /\ target_overflow \in Seq(Felt)
      /\ Len(target_overflow) \in Nat
      /\ Len(target_overflow) <= saved_overflow_len
      /\ stack_overflow_save_stack' \in Seq(Seq(Felt))
      /\ saved_overflow_len' = saved_overflow_len - Len(target_overflow)
      /\ error' = error
      /\ SavedLenIsTotal'
  BY PoppedSegment DEF Returning
<1> DEFINE n == Len(target_overflow)
<1>2. \A i \in 0..(len - 1) :
        stack'[i] = IF i >= bot - n /\ i < bot
                      THEN target_overflow[i - (bot - n) + 1] ELSE buf[i]
  BY DEF with_overflow
<1>3. stack' \in [0..(len - 1) -> Felt]
  <2>1. \A i \in 0..(len - 1) : i >= bot - n /\ i < bot => i - (bot - n) + 1 \in 1..n
    BY <1>1
  <2>2. \A j \in 1..n : target_overflow[j] \in Felt
    BY <1>1
  <2> QED
    BY <2>1, <2>2 DEF with_overflow
<1>4. TypeOK'
  BY <1>1, <1>3 DEF IInv, TypeOK
<1>5. LiveStackInBuffer' /\ AllocationCapped'
  BY <1>1 DEF LiveStackInBuffer, AllocationCapped, max_len, AtLeast
<1>6. ZeroBelow'
  <2> SUFFICES ASSUME NEW i \in 0..(stack_bot_idx' - 1)
               PROVE  stack'[i] = Zero
    BY DEF ZeroBelow
  <2>1. i \in 0..(len - 1) /\ i \in 0..(bot - 1) /\ ~(i >= bot - n)
    BY <1>1
  <2> HIDE DEF n
  <2> QED
    BY <1>2, <2>1
<1>7. AggregateDepthBounded'
  BY <1>1 DEF IInv, AggregateDepthBounded, TypeOK, LiveStackInBuffer, Returning
<1> QED
  BY <1>4, <1>5, <1>6, <1>7 DEF IInv

\* A return, whether the overflow fits below the live stack, or the stack has
\* to be moved first, or the buffer grown.
LEMMA RestoreIInv ==
    ASSUME IInv, RestoreInPlace \/ RestoreReset \/ RestoreGrow
    PROVE  IInv'
<1> USE Constants
<1>0. TypeOK /\ LiveStackInBuffer /\ ZeroBelow /\ AllocationCapped
  BY DEF IInv
<1>1. Returning /\ PopSaved
  BY DEF RestoreInPlace, RestoreReset, RestoreGrow
<1> DEFINE n == Len(target_overflow)
           new_top == INITIAL_STACK_TOP_IDX + n
           new_bot == new_top - MIN_STACK_DEPTH
<1>2. n \in Nat /\ n <= saved_overflow_len
  BY <1>1, PoppedSegment DEF Returning
<1>3. stack_size = MIN_STACK_DEPTH /\ n + MIN_STACK_DEPTH <= MaxStackDepth
  BY <1>0, <1>1, <1>2 DEF Returning, TypeOK, LiveStackInBuffer, IInv, AggregateDepthBounded
<1>4. new_bot \in Nat /\ n <= new_bot
  BY <1>2
<1>5. CASE RestoreInPlace
  BY <1>0, <1>1, <1>2, <1>3, <1>5, PutBackIInv
     DEF RestoreInPlace, TypeOK, LiveStackInBuffer, ZeroBelow, AllocationCapped
<1>6. CASE RestoreReset
  <2> DEFINE buf == reset_stack(stack, stack_bot_idx, new_top)
  <2>1. /\ buf \in [0..(stack_len - 1) -> Felt]
        /\ \A i \in 0..(new_bot - 1) : buf[i] = Zero
    <3>1. new_top \in Nat /\ new_top < stack_len /\ MIN_STACK_DEPTH <= new_top
      BY <1>2, <1>6 DEF RestoreReset
    <3> HIDE DEF new_top
    <3> QED
      BY <1>0, <3>1, ResetStack DEF TypeOK, LiveStackInBuffer
  <2>2. /\ stack' = with_overflow(buf, new_bot, target_overflow)
        /\ stack_len' = stack_len
        /\ stack_bot_idx' = new_bot - n
        /\ stack_top_idx' = new_bot + MIN_STACK_DEPTH
        /\ new_bot + MIN_STACK_DEPTH < stack_len
    BY <1>2, <1>6 DEF RestoreReset
  <2> HIDE DEF buf, new_bot, new_top
  <2> QED
    BY <1>0, <1>1, <1>4, <2>1, <2>2, PutBackIInv
       DEF TypeOK, LiveStackInBuffer, AllocationCapped
<1>7. CASE RestoreGrow
  <2> DEFINE len == grown_len(new_top + 1)
             grown == grown_stack(new_top + 1)
             buf == reset_stack(grown, STACK_BUFFER_BASE_IDX, new_top)
  <2>0. stack_size + 1 <= MaxStackDepth /\ new_top + 1 \in Nat
    BY <1>0, <1>2, <1>3, <1>7 DEF RestoreGrow, TypeOK
  <2>1. /\ len \in Nat
        /\ len <= max_len
        /\ len > new_top
    <3>1. new_top + 1 <= max_len
      BY <1>2, <1>3 DEF max_len
    <3>2. len \in Nat /\ len <= max_len /\ len >= new_top + 1
      <4> HIDE DEF new_top
      <4> QED  BY <1>0, <2>0, <3>1, GrownLen
    <3> QED
      BY <1>2, <3>2
  <2>2. grown \in [0..(len - 1) -> Felt]
    BY <1>0, <2>0, GrownStack
  <2> HIDE DEF grown, len
  <2>3. /\ buf \in [0..(len - 1) -> Felt]
        /\ \A i \in 0..(new_bot - 1) : buf[i] = Zero
    BY <1>2, <2>1, <2>2 DEF reset_stack
  <2>4. /\ stack' = with_overflow(buf, new_bot, target_overflow)
        /\ stack_len' = len
        /\ stack_bot_idx' = new_bot - n
        /\ stack_top_idx' = new_bot + MIN_STACK_DEPTH
        /\ new_bot + MIN_STACK_DEPTH < len
        /\ INITIAL_STACK_TOP_IDX < len
    BY <1>2, <1>7, <2>1 DEF RestoreGrow, len, grown
  <2> HIDE DEF buf, new_bot, new_top
  <2>5. len <= AtLeast(INITIAL_STACK_BUFFER_SIZE, max_len)
    BY <2>1 DEF AtLeast
  <2> QED
    BY <1>1, <1>4, <2>1, <2>3, <2>4, <2>5, PutBackIInv
<1> QED
  BY <1>5, <1>6, <1>7

\* Every step preserves the invariant.
LEMMA NextIInv ==
    ASSUME IInv, [Next]_vars
    PROVE  IInv'
<1>1. ASSUME NEW v \in Felt, PushInPlace(v) \/ PushGrow(v)
      PROVE  IInv'
  BY <1>1, PushIInv
<1>2. CASE PushOverLimit \/ RestoreTooDeep
  <2>1. UNCHANGED <<stack, stack_len, stack_top_idx, stack_bot_idx, saves>> /\ error' \in Errors
    BY <1>2 DEF PushOverLimit, RestoreTooDeep, Errors
  <2>2. SavedLenIsTotal'
    BY <2>1, SavedLenFrame DEF IInv, AggregateDepthBounded
  <2> QED
    BY <2>1, <2>2 DEF IInv, TypeOK, LiveStackInBuffer, ZeroBelow, AggregateDepthBounded,
                      AllocationCapped, max_len, AtLeast, saves
<1>3. CASE DropInPlace \/ DropReset
  BY <1>3, DropIInv
<1>4. CASE StartContext
  BY <1>4, StartContextIInv
<1>5. CASE RestoreInPlace \/ RestoreReset \/ RestoreGrow
  BY <1>5, RestoreIInv
<1>6. CASE UNCHANGED vars
  <2>1. SavedLenIsTotal'
    BY <1>6, SavedLenFrame DEF IInv, AggregateDepthBounded, vars, saves
  <2> QED
    BY <1>6, <2>1 DEF IInv, TypeOK, LiveStackInBuffer, ZeroBelow, AggregateDepthBounded,
                      AllocationCapped, max_len, AtLeast, vars
<1> QED
  BY <1>1, <1>2, <1>3, <1>4, <1>5, <1>6, InPlaceIInv DEF Next

\* The inductive invariant holds in every reachable state.
THEOREM Invariance == Spec => []IInv
<1>1. IInv /\ [Next]_vars => IInv'
  BY NextIInv
<1> QED
  BY InitIInv, <1>1, PTL DEF Spec

\* The fields of the buffer keep their types.
THEOREM TypeCorrect == Spec => []TypeOK
<1>1. IInv => TypeOK
  BY DEF IInv
<1> QED
  BY Invariance, <1>1, PTL

\* No operation, growth or move takes the live stack out of the allocation.
THEOREM LiveStackStaysInBuffer == Spec => []LiveStackInBuffer
<1>1. IInv => LiveStackInBuffer
  BY DEF IInv
<1> QED
  BY Invariance, <1>1, PTL

\* What lies under the stack of the current context reads as zero, so drops at
\* the minimum depth and stack_get_safe never see another context's elements.
THEOREM ZeroBelowBottom == Spec => []BelowBottomIsZero
<1>1. IInv => BelowBottomIsZero
  <2> SUFFICES ASSUME IInv, NEW idx \in 0..(stack_top_idx + 1), idx >= stack_size
               PROVE  stack_get_safe(idx) = Zero
    BY DEF BelowBottomIsZero
  <2>1. CASE idx < stack_top_idx
    <3>1. stack_top_idx - idx - 1 \in 0..(stack_bot_idx - 1)
      BY <2>1 DEF IInv, TypeOK
    <3> QED
      BY <2>1, <3>1 DEF IInv, ZeroBelow, stack_get_safe
  <2> QED
    BY <2>1 DEF stack_get_safe
<1> QED
  BY Invariance, <1>1, PTL

\* The aggregate depth over all contexts stays within max_stack_depth.
THEOREM AggregateBound == Spec => []AggregateDepthBounded
<1>1. IInv => AggregateDepthBounded
  BY DEF IInv
<1> QED
  BY Invariance, <1>1, PTL

\* The allocation stays within what max_stack_depth asks for.
THEOREM AllocationBound == Spec => []AllocationCapped
<1>1. IInv => AllocationCapped
  BY DEF IInv
<1> QED
  BY Invariance, <1>1, PTL

----------------------------------------------------------------------------
(* StackBuffer implements OperandStack: under the mapping that reads the   *)
(* live cells as the abstract stack, every initial state is an initial     *)
(* state of OperandStack and every step one of its steps, or a stutter.    *)

\* The abstract stack the live cells stand for.
Stk == [i \in 1..stack_size |-> stack[stack_bot_idx + i - 1]]

USE DEF STACK_BUFFER_BASE_IDX, stack_size, Stk

\* The mapped stack is a sequence as long as the live stack is deep.
LEMMA StkIsSeq ==
    ASSUME TypeOK, LiveStackInBuffer
    PROVE  /\ stack_size \in Nat /\ stack_size >= MIN_STACK_DEPTH
           /\ Stk \in Seq(Felt)
           /\ Len(Stk) = stack_size
<1>1. stack_size \in Nat /\ stack_size >= MIN_STACK_DEPTH
  BY Constants DEF TypeOK, LiveStackInBuffer
<1>2. \A i \in 1..stack_size : stack[stack_bot_idx + i - 1] \in Felt
  BY Constants DEF TypeOK, LiveStackInBuffer
<1> QED
  BY <1>1, <1>2

\* The initial buffer holds MIN_STACK_DEPTH inputs.
LEMMA RefineInit == Init => Abstract!Init
<1> SUFFICES ASSUME Init PROVE Abstract!Init
  OBVIOUS
<1>1. TypeOK /\ stack_size = MIN_STACK_DEPTH /\ LiveStackInBuffer
  BY InitIInv, Constants DEF IInv, Init
<1>2. Stk \in [1..MIN_STACK_DEPTH -> Felt]
  BY <1>1, Constants DEF TypeOK, LiveStackInBuffer
<1> QED
  BY <1>2 DEF Init, Abstract!Init

\* A push appends an element.
LEMMA RefinePush ==
    ASSUME IInv, IInv', NEW v \in Felt, PushInPlace(v) \/ PushGrow(v)
    PROVE  Abstract!Push(v)
<1> USE Constants
<1>0. TypeOK /\ LiveStackInBuffer /\ TypeOK' /\ LiveStackInBuffer'
  BY DEF IInv
<1>1. Stk \in Seq(Felt) /\ Len(Stk) = stack_size /\ stack_size \in Nat
  BY <1>0, StkIsSeq
<1>2. stack_size' = stack_size + 1
  <2>1. CASE PushInPlace(v)
    BY <1>0, <2>1 DEF PushInPlace, TypeOK
  <2>2. CASE PushGrow(v)
    BY <1>0, <2>2 DEF PushGrow, TypeOK
  <2> QED
    BY <2>1, <2>2
<1>3. \A i \in 1..(stack_size + 1) :
        stack'[stack_bot_idx' + i - 1] =
          IF i = stack_size + 1 THEN v ELSE stack[stack_bot_idx + i - 1]
  <2>1. CASE PushInPlace(v)
    BY <1>0, <1>1, <2>1 DEF PushInPlace, TypeOK, LiveStackInBuffer
  <2>2. CASE PushGrow(v)
    <3>1. /\ stack_size + 1 <= MaxStackDepth
          /\ stack_top_idx + 2 \in Nat
      BY <1>0, <1>1, <2>2 DEF PushGrow, CanPush, IInv, TypeOK
    <3>2. /\ grown_len(stack_top_idx + 2) \in Nat
          /\ grown_len(stack_top_idx + 2) >= STACK_BUFFER_BASE_IDX + stack_size + 2
      BY <1>0, <3>1, GrownLen
    <3> QED
      BY <1>0, <1>1, <2>2, <3>2, SMTT(30) DEF PushGrow, grown_stack, TypeOK, LiveStackInBuffer
  <2> QED
    BY <2>1, <2>2
<1>4. Stk' = Append(Stk, v)
  <2>1. Stk' = [i \in 1..(stack_size + 1) |->
                  IF i = stack_size + 1 THEN v ELSE stack[stack_bot_idx + i - 1]]
    BY <1>2, <1>3
  <2>2. Append(Stk, v) = [i \in 1..(Len(Stk) + 1) |->
                            IF i = Len(Stk) + 1 THEN v ELSE Stk[i]]
    BY <1>1
  <2>3. [i \in 1..(stack_size + 1) |-> IF i = stack_size + 1 THEN v ELSE Stk[i]]
        = [i \in 1..(stack_size + 1) |->
             IF i = stack_size + 1 THEN v ELSE stack[stack_bot_idx + i - 1]]
    BY <1>1
  <2> HIDE DEF Stk, stack_size
  <2> QED
    BY <1>1, <2>1, <2>2, <2>3
<1>5. error = "none" /\ stack_size + saved_overflow_len + 1 <= MaxStackDepth
      /\ UNCHANGED <<saves, error>>
  BY DEF PushInPlace, PushGrow, CanPush
<1> QED
  BY <1>1, <1>4, <1>5 DEF Abstract!Push, Abstract!Depth, saves

\* A drop removes the top element, and at the minimum depth pulls in a zero.
LEMMA RefineDrop ==
    ASSUME IInv, IInv', DropInPlace \/ DropReset
    PROVE  Abstract!Drop
<1> USE Constants
<1>0. TypeOK /\ LiveStackInBuffer /\ ZeroBelow /\ TypeOK' /\ LiveStackInBuffer'
  BY DEF IInv
<1>1. /\ Stk \in Seq(Felt) /\ Len(Stk) = stack_size /\ stack_size \in Nat
      /\ stack_size >= MIN_STACK_DEPTH
  BY <1>0, StkIsSeq
<1>d. Abstract!Depth = stack_size
  BY <1>1 DEF Abstract!Depth
<1>2. CASE stack_size > MIN_STACK_DEPTH
  <2>0. DropInPlace
    BY <1>0, <1>2 DEF DropReset, TypeOK, LiveStackInBuffer
  <2>1. stack_bot_idx' = stack_bot_idx /\ stack_size' = stack_size - 1 /\ stack' = stack
    BY <1>0, <1>2, <2>0 DEF DropInPlace, TypeOK, LiveStackInBuffer, AtMost
  <2>2. Stk' = [i \in 1..(stack_size - 1) |-> Stk[i]]
    BY <1>1, <2>1
  <2> QED
    BY <1>d, <1>2, <2>0, <2>2 DEF Abstract!Drop, DropInPlace, saves
<1>3. CASE stack_size = MIN_STACK_DEPTH
  <2>1. stack_size' = stack_size
    <3>1. CASE DropInPlace
      BY <1>0, <1>3, <3>1 DEF DropInPlace, TypeOK, AtMost
    <3>2. CASE DropReset
      BY <1>0, <1>3, <3>2 DEF DropReset, TypeOK, AtMost
    <3> QED
      BY <3>1, <3>2
  <2>2. \A i \in 1..stack_size :
          stack'[stack_bot_idx' + i - 1] = IF i = 1 THEN Zero ELSE Stk[i - 1]
    <3>1. CASE DropInPlace
      BY <1>0, <1>3, <3>1 DEF DropInPlace, ZeroBelow, TypeOK, LiveStackInBuffer, AtMost
    <3>2. CASE DropReset
      BY <1>0, <1>3, <3>2 DEF DropReset, reset_stack, TypeOK, LiveStackInBuffer, AtMost
    <3> QED
      BY <3>1, <3>2
  <2>3. Stk' = [i \in 1..stack_size |-> IF i = 1 THEN Zero ELSE Stk[i - 1]]
    <3>1. Stk' = [i \in 1..stack_size |-> stack'[stack_bot_idx' + i - 1]]
      BY <2>1
    <3> HIDE DEF Stk, stack_size
    <3> QED
      BY <2>2, <3>1
  <2>4. error = "none" /\ UNCHANGED <<saves, error>>
    BY DEF DropInPlace, DropReset
  <2>5. ~(stack_size > MIN_STACK_DEPTH)
    BY <1>1, <1>3
  <2> HIDE DEF stack_size
  <2> QED
    BY <1>d, <2>3, <2>4, <2>5 DEF Abstract!Drop, saves
<1> QED
  BY <1>1, <1>2, <1>3

\* Positions of the top MIN_STACK_DEPTH elements, in the stack and in the buffer.
LEMMA TopPosition ==
    ASSUME TypeOK, LiveStackInBuffer, NEW idx \in 0..(MIN_STACK_DEPTH - 1)
    PROVE  /\ Abstract!Depth = stack_size
           /\ Abstract!Pos(idx) = stack_size - idx
           /\ stack_size - idx \in 1..stack_size
           /\ Stk[stack_size - idx] = stack[stack_top_idx - idx - 1]
<1> USE Constants
<1>1. Len(Stk) = stack_size /\ stack_size \in Nat /\ stack_size >= MIN_STACK_DEPTH
  BY StkIsSeq
<1>2. stack_size - idx \in 1..stack_size
  BY <1>1 DEF TypeOK
<1>3. stack_bot_idx + (stack_size - idx) - 1 = stack_top_idx - idx - 1
  BY DEF TypeOK
<1> QED
  BY <1>1, <1>2, <1>3 DEF Abstract!Depth, Abstract!Pos

\* The operations that rewrite the top of the stack in place rewrite the same
\* positions of the abstract stack.
LEMMA RewrittenStk ==
    ASSUME UNCHANGED <<stack_top_idx, stack_bot_idx>>
    PROVE  Stk' = [i \in 1..stack_size |-> stack'[stack_bot_idx + i - 1]]
OBVIOUS

\* Set writes one of the top elements.
LEMMA RefineSet ==
    ASSUME IInv, NEW idx \in 0..(MIN_STACK_DEPTH - 1), NEW v \in Felt, Set(idx, v)
    PROVE  Abstract!Set(idx, v)
<1> USE Constants
<1>0. TypeOK /\ LiveStackInBuffer
  BY DEF IInv
<1>1. /\ Abstract!Pos(idx) = stack_size - idx
      /\ stack_size - idx \in 1..stack_size
  BY <1>0, TopPosition
<1>2. Stk' = [Stk EXCEPT ![stack_size - idx] = v]
  <2>1. Stk' = [i \in 1..stack_size |-> stack'[stack_bot_idx + i - 1]]
    BY RewrittenStk DEF Set
  <2>2. \A i \in 1..stack_size :
          stack'[stack_bot_idx + i - 1] = IF i = stack_size - idx THEN v ELSE Stk[i]
    BY <1>0, <1>1 DEF Set, TypeOK, LiveStackInBuffer
  <2>3. DOMAIN Stk = 1..stack_size
    OBVIOUS
  <2> HIDE DEF Stk, stack_size
  <2> QED
    BY <2>1, <2>2, <2>3
<1> QED
  BY <1>1, <1>2 DEF Set, Abstract!Set, saves

\* The rotations permute the top elements.
LEMMA RefineRotate ==
    ASSUME IInv, NEW n \in 1..MIN_STACK_DEPTH
    PROVE  /\ RotateLeft(n) => Abstract!RotateLeft(n)
           /\ RotateRight(n) => Abstract!RotateRight(n)
<1> USE Constants
<1>0. TypeOK /\ LiveStackInBuffer
  BY DEF IInv
<1>1. /\ Abstract!Depth = stack_size
      /\ Abstract!Pos(n - 1) = stack_size - (n - 1)
      /\ stack_size - (n - 1) \in 1..stack_size
  <2>1. n - 1 \in 0..(MIN_STACK_DEPTH - 1)
    OBVIOUS
  <2> QED
    BY <1>0, <2>1, TopPosition
<1>2. ASSUME RotateLeft(n)
      PROVE  Abstract!RotateLeft(n)
  <2>1. Stk' = [i \in 1..stack_size |->
                  IF i = stack_size THEN Stk[stack_size - (n - 1)]
                  ELSE IF i >= stack_size - (n - 1) THEN Stk[i + 1]
                  ELSE Stk[i]]
    <3>1. Stk' = [i \in 1..stack_size |-> stack'[stack_bot_idx + i - 1]]
      BY <1>2, RewrittenStk DEF RotateLeft
    <3>2. \A i \in 1..stack_size :
            stack'[stack_bot_idx + i - 1] =
              IF i = stack_size THEN Stk[stack_size - (n - 1)]
              ELSE IF i >= stack_size - (n - 1) THEN Stk[i + 1]
              ELSE Stk[i]
      BY <1>0, <1>1, <1>2 DEF RotateLeft, TypeOK, LiveStackInBuffer
    <3> HIDE DEF Stk, stack_size
    <3> QED
      BY <3>1, <3>2
  <2>2. error = "none" /\ UNCHANGED <<saves, error>>
    BY <1>2 DEF RotateLeft
  <2> HIDE DEF stack_size
  <2> QED
    BY <1>1, <2>1, <2>2 DEF Abstract!RotateLeft, saves
<1>3. ASSUME RotateRight(n)
      PROVE  Abstract!RotateRight(n)
  <2>1. Stk' = [i \in 1..stack_size |->
                  IF i = stack_size - (n - 1) THEN Stk[stack_size]
                  ELSE IF i > stack_size - (n - 1) THEN Stk[i - 1]
                  ELSE Stk[i]]
    <3>1. Stk' = [i \in 1..stack_size |-> stack'[stack_bot_idx + i - 1]]
      BY <1>3, RewrittenStk DEF RotateRight
    <3>2. \A i \in 1..stack_size :
            stack'[stack_bot_idx + i - 1] =
              IF i = stack_size - (n - 1) THEN Stk[stack_size]
              ELSE IF i > stack_size - (n - 1) THEN Stk[i - 1]
              ELSE Stk[i]
      BY <1>0, <1>1, <1>3 DEF RotateRight, TypeOK, LiveStackInBuffer
    <3> HIDE DEF Stk, stack_size
    <3> QED
      BY <3>1, <3>2
  <2>2. error = "none" /\ UNCHANGED <<saves, error>>
    BY <1>3 DEF RotateRight
  <2> HIDE DEF stack_size
  <2> QED
    BY <1>1, <2>1, <2>2, ZenonT(40) DEF Abstract!RotateRight, saves
<1> QED
  BY <1>2, <1>3

\* Swap exchanges two of the top elements.
LEMMA RefineSwap ==
    ASSUME IInv, NEW i \in 0..(MIN_STACK_DEPTH - 1), NEW j \in 0..(MIN_STACK_DEPTH - 1),
           Swap(i, j)
    PROVE  Abstract!Swap(i, j)
<1> USE Constants
<1>0. TypeOK /\ LiveStackInBuffer
  BY DEF IInv
<1> DEFINE a == stack_top_idx - i - 1
           b == stack_top_idx - j - 1
           p == stack_size - i
           q == stack_size - j
           s == [stack EXCEPT ![a] = stack[b]]
           t == [Stk EXCEPT ![p] = Stk[q]]
<1>1. /\ Abstract!Pos(i) = p /\ p \in 1..stack_size /\ Stk[p] = stack[a]
      /\ Abstract!Pos(j) = q /\ q \in 1..stack_size /\ Stk[q] = stack[b]
  BY <1>0, TopPosition
<1>2. /\ a \in 0..(stack_len - 1) /\ b \in 0..(stack_len - 1)
      /\ \A k \in 1..stack_size :
           /\ stack_bot_idx + k - 1 \in 0..(stack_len - 1)
           /\ (stack_bot_idx + k - 1 = a) <=> (k = p)
           /\ (stack_bot_idx + k - 1 = b) <=> (k = q)
  BY <1>0 DEF TypeOK, LiveStackInBuffer
<1>3. stack' = [s EXCEPT ![b] = stack[a]]
  BY DEF Swap
<1>4. Stk' = [k \in 1..stack_size |-> stack'[stack_bot_idx + k - 1]]
  BY RewrittenStk DEF Swap
<1>5. \A k \in 1..stack_size : Stk[k] = stack[stack_bot_idx + k - 1]
  OBVIOUS
<1>6. DOMAIN Stk = 1..stack_size /\ DOMAIN stack = 0..(stack_len - 1)
  BY <1>0 DEF TypeOK
<1> HIDE DEF a, b, p, q, Stk, stack_size
<1>7. /\ DOMAIN s = 0..(stack_len - 1)
      /\ \A k \in 1..stack_size : s[stack_bot_idx + k - 1] = t[k]
  BY <1>1, <1>2, <1>5, <1>6
<1>8. DOMAIN t = 1..stack_size
  BY <1>6
<1> HIDE DEF s, t
<1>9. \A k \in 1..stack_size :
        stack'[stack_bot_idx + k - 1] = [t EXCEPT ![q] = Stk[p]][k]
  BY <1>1, <1>2, <1>3, <1>7, <1>8
<1>10. Stk' = [t EXCEPT ![q] = Stk[p]]
  BY <1>4, <1>8, <1>9
<1>11. error = "none" /\ UNCHANGED <<saves, error>>
  BY DEF Swap
<1> QED
  BY <1>1, <1>10, <1>11 DEF Abstract!Swap, saves, Stk, t

\* A call hides what lies under the top MIN_STACK_DEPTH elements.
LEMMA RefineStartContext ==
    ASSUME IInv, StartContext
    PROVE  Abstract!StartContext
<1> USE Constants
<1>0. TypeOK /\ LiveStackInBuffer
  BY DEF IInv
<1> DEFINE over == stack_size - MIN_STACK_DEPTH
<1>1. Len(Stk) = stack_size /\ stack_size \in Nat /\ over \in Nat
  BY <1>0, StkIsSeq
<1>2. Abstract!Depth = stack_size
  BY <1>1 DEF Abstract!Depth
<1>3. stack_size' = MIN_STACK_DEPTH /\ stack_bot_idx' = stack_bot_idx + over
  BY <1>0 DEF StartContext, TypeOK
<1>4. \A i \in 1..MIN_STACK_DEPTH : stack'[stack_bot_idx + over + i - 1] = Stk[over + i]
  BY <1>0, <1>1 DEF StartContext, TypeOK, LiveStackInBuffer
<1>5. Stk' = [i \in 1..MIN_STACK_DEPTH |-> Stk[over + i]]
  <2>1. Stk' = [i \in 1..MIN_STACK_DEPTH |-> stack'[stack_bot_idx + over + i - 1]]
    BY <1>3
  <2> HIDE DEF Stk, over
  <2> QED
    BY <1>4, <2>1
<1>6. [i \in 1..(stack_top_idx - MIN_STACK_DEPTH - stack_bot_idx) |->
         stack[stack_bot_idx + i - 1]]
      = [i \in 1..over |-> Stk[i]]
  <2>1. over = stack_top_idx - MIN_STACK_DEPTH - stack_bot_idx
    BY <1>0 DEF TypeOK
  <2>2. \A i \in 1..over : Stk[i] = stack[stack_bot_idx + i - 1]
    BY <1>1
  <2> HIDE DEF Stk, over
  <2> QED
    BY <2>1, <2>2
<1>7. /\ error = "none" /\ UNCHANGED error
      /\ stack_overflow_save_stack' =
           Append(stack_overflow_save_stack, [i \in 1..over |-> Stk[i]])
  BY <1>6 DEF StartContext
<1>8. saved_overflow_len' = saved_overflow_len + over
  BY <1>0 DEF StartContext, TypeOK
<1> HIDE DEF stack_size
<1> QED
  BY <1>2, <1>5, <1>7, <1>8 DEF Abstract!StartContext

\* A return puts the hidden elements back, wherever in the buffer buf the live
\* stack of the returning context is.
LEMMA RefinePutBack ==
    ASSUME IInv, Returning, PopSaved,
           NEW buf, NEW len \in Nat, NEW bot \in Nat,
           buf \in [0..(len - 1) -> Felt],
           bot + MIN_STACK_DEPTH < len,
           Len(target_overflow) <= bot,
           \A i \in 1..MIN_STACK_DEPTH : buf[bot + i - 1] = stack[stack_bot_idx + i - 1],
           stack' = with_overflow(buf, bot, target_overflow),
           stack_bot_idx' = bot - Len(target_overflow),
           stack_top_idx' = bot + MIN_STACK_DEPTH
    PROVE  Abstract!RestoreContext
<1> USE Constants
<1> DEFINE over == Len(target_overflow)
<1>0. TypeOK /\ LiveStackInBuffer
  BY DEF IInv
<1>1. target_overflow \in Seq(Felt) /\ over \in Nat
  BY PoppedSegment DEF Returning
<1>2. /\ Len(Stk) = stack_size
      /\ stack_size = MIN_STACK_DEPTH
  BY <1>0, StkIsSeq DEF Returning
<1>3. Abstract!Depth = MIN_STACK_DEPTH
  BY <1>2 DEF Abstract!Depth
<1>4. stack_size' = over + MIN_STACK_DEPTH
  BY <1>1
<1>5. \A i \in 1..(over + MIN_STACK_DEPTH) :
        stack'[bot - over + i - 1] = IF i <= over THEN target_overflow[i] ELSE Stk[i - over]
  <2> SUFFICES ASSUME NEW i \in 1..(over + MIN_STACK_DEPTH)
               PROVE  stack'[bot - over + i - 1] =
                        IF i <= over THEN target_overflow[i] ELSE Stk[i - over]
    OBVIOUS
  <2>1. bot - over + i - 1 \in 0..(len - 1)
    BY <1>1
  <2>2. CASE i <= over
    BY <1>1, <2>1, <2>2 DEF with_overflow
  <2>3. CASE i > over
    <3>1. i - over \in 1..MIN_STACK_DEPTH
      BY <1>1, <2>3
    <3>2. bot - over + i - 1 = bot + (i - over) - 1 /\ ~(bot - over + i - 1 < bot)
      BY <1>1, <2>3
    <3>3. stack'[bot - over + i - 1] = buf[bot + (i - over) - 1]
      BY <2>1, <3>2 DEF with_overflow
    <3>4. buf[bot + (i - over) - 1] = Stk[i - over]
      BY <1>2, <3>1
    <3> QED
      BY <1>1, <2>3, <3>3, <3>4
  <2> QED
    BY <1>1, <2>2, <2>3
<1>6. Stk' = [i \in 1..(over + MIN_STACK_DEPTH) |->
                IF i <= over THEN target_overflow[i] ELSE Stk[i - over]]
  <2>1. Stk' = [i \in 1..(over + MIN_STACK_DEPTH) |-> stack'[bot - over + i - 1]]
    BY <1>4
  <2> HIDE DEF Stk, over
  <2> QED
    BY <1>5, <2>1
<1>7. /\ error = "none" /\ UNCHANGED error
      /\ stack_overflow_save_stack # <<>>
      /\ stack_overflow_save_stack' =
           [i \in 1..(Len(stack_overflow_save_stack) - 1) |-> stack_overflow_save_stack[i]]
      /\ saved_overflow_len' = saved_overflow_len - over
  BY DEF Returning, PopSaved
<1> HIDE DEF stack_size
<1> QED
  BY <1>3, <1>6, <1>7 DEF Abstract!RestoreContext, target_overflow

\* A return puts the hidden elements back under the top ones, in each of the
\* three ways restore_context finds room for them.
LEMMA RefineRestore ==
    ASSUME IInv, RestoreInPlace \/ RestoreReset \/ RestoreGrow
    PROVE  Abstract!RestoreContext
<1> USE Constants
<1>0. TypeOK /\ LiveStackInBuffer
  BY DEF IInv
<1>1. Returning /\ PopSaved
  BY DEF RestoreInPlace, RestoreReset, RestoreGrow
<1> DEFINE n == Len(target_overflow)
           new_top == INITIAL_STACK_TOP_IDX + n
           new_bot == new_top - MIN_STACK_DEPTH
<1>2. n \in Nat /\ n <= saved_overflow_len
  BY <1>1, PoppedSegment DEF Returning
<1>3. stack_size = MIN_STACK_DEPTH /\ n + MIN_STACK_DEPTH <= MaxStackDepth
  BY <1>0, <1>1, <1>2 DEF Returning, TypeOK, LiveStackInBuffer, IInv, AggregateDepthBounded
<1>4. new_bot \in Nat /\ n <= new_bot
  BY <1>2
<1>5. CASE RestoreInPlace
  <2>1. /\ stack \in [0..(stack_len - 1) -> Felt]
        /\ stack_len \in Nat /\ stack_bot_idx \in Nat
        /\ stack_bot_idx + MIN_STACK_DEPTH < stack_len
    BY <1>0 DEF TypeOK, LiveStackInBuffer
  <2>2. /\ stack' = with_overflow(stack, stack_bot_idx, target_overflow)
        /\ stack_bot_idx' = stack_bot_idx - n
        /\ stack_top_idx' = stack_bot_idx + MIN_STACK_DEPTH
        /\ n <= stack_bot_idx
    BY <1>0, <1>3, <1>5 DEF RestoreInPlace, TypeOK
  <2> QED
    BY <1>1, <2>1, <2>2, RefinePutBack
<1>6. CASE RestoreReset
  <2> DEFINE buf == reset_stack(stack, stack_bot_idx, new_top)
  <2>0. new_top \in Nat /\ new_top < stack_len /\ MIN_STACK_DEPTH <= new_top
    BY <1>2, <1>6 DEF RestoreReset
  <2>1. /\ buf \in [0..(stack_len - 1) -> Felt]
        /\ \A i \in 1..MIN_STACK_DEPTH :
             buf[new_bot + i - 1] = stack[stack_bot_idx + i - 1]
    <3> HIDE DEF new_top
    <3>1. buf \in [0..(stack_len - 1) -> Felt]
      BY <1>0, <2>0, ResetStack DEF TypeOK, LiveStackInBuffer
    <3>2. \A i \in 1..MIN_STACK_DEPTH :
            buf[new_bot + i - 1] = stack[stack_bot_idx + i - 1]
      BY <1>0, <2>0 DEF reset_stack, TypeOK, LiveStackInBuffer
    <3> QED
      BY <3>1, <3>2
  <2>2. /\ stack' = with_overflow(buf, new_bot, target_overflow)
        /\ stack_bot_idx' = new_bot - n
        /\ stack_top_idx' = new_bot + MIN_STACK_DEPTH
        /\ new_bot + MIN_STACK_DEPTH < stack_len
    BY <1>2, <1>6 DEF RestoreReset
  <2> HIDE DEF buf, new_bot, new_top
  <2> QED
    BY <1>0, <1>1, <1>4, <2>1, <2>2, RefinePutBack DEF TypeOK
<1>7. CASE RestoreGrow
  <2> DEFINE len == grown_len(new_top + 1)
             grown == grown_stack(new_top + 1)
             buf == reset_stack(grown, STACK_BUFFER_BASE_IDX, new_top)
  <2>0. stack_size + 1 <= MaxStackDepth /\ new_top + 1 \in Nat
    BY <1>0, <1>2, <1>3, <1>7 DEF RestoreGrow, TypeOK
  <2>1. len \in Nat /\ len > new_top
    <3>1. new_top + 1 <= max_len
      BY <1>2, <1>3 DEF max_len
    <3>2. len \in Nat /\ len >= new_top + 1
      BY <1>0, <2>0, <3>1, GrownLen
    <3> QED
      BY <1>2, <3>2
  <2>2. /\ grown \in [0..(len - 1) -> Felt]
        /\ \A i \in 1..MIN_STACK_DEPTH :
             grown[STACK_BUFFER_BASE_IDX + i - 1] = stack[stack_bot_idx + i - 1]
    <3>1. grown \in [0..(len - 1) -> Felt]
      BY <1>0, <2>0, GrownStack
    <3>2. \A i \in 1..MIN_STACK_DEPTH :
            grown[STACK_BUFFER_BASE_IDX + i - 1] = stack[stack_bot_idx + i - 1]
      BY <1>0, <1>2, <1>3, <2>1 DEF grown_stack, TypeOK, LiveStackInBuffer
    <3> QED
      BY <3>1, <3>2
  <2> HIDE DEF grown, len
  <2>3. /\ buf \in [0..(len - 1) -> Felt]
        /\ \A i \in 1..MIN_STACK_DEPTH :
             buf[new_bot + i - 1] = stack[stack_bot_idx + i - 1]
    <3>1. buf \in [0..(len - 1) -> Felt]
      BY <1>2, <2>1, <2>2 DEF reset_stack
    <3>2. \A i \in 1..MIN_STACK_DEPTH :
            buf[new_bot + i - 1] = grown[STACK_BUFFER_BASE_IDX + i - 1]
      BY <1>2, <2>1, <2>2 DEF reset_stack
    <3> HIDE DEF buf
    <3> QED
      BY <2>2, <3>1, <3>2
  <2>4. /\ stack' = with_overflow(buf, new_bot, target_overflow)
        /\ stack_bot_idx' = new_bot - n
        /\ stack_top_idx' = new_bot + MIN_STACK_DEPTH
        /\ new_bot + MIN_STACK_DEPTH < len
    BY <1>2, <1>7, <2>1 DEF RestoreGrow, len, grown
  <2> HIDE DEF buf, new_bot, new_top
  <2> QED
    BY <1>1, <1>4, <2>1, <2>3, <2>4, RefinePutBack
<1> QED
  BY <1>5, <1>6, <1>7

\* A step that stops with an error leaves the stack as it was.
LEMMA RefineErrors ==
    ASSUME IInv
    PROVE  /\ PushOverLimit => Abstract!PushOverLimit
           /\ RestoreTooDeep => Abstract!RestoreTooDeep
<1> USE Constants
<1>0. TypeOK /\ LiveStackInBuffer
  BY DEF IInv
<1>1. Len(Stk) = stack_size /\ stack_size \in Nat
  BY <1>0, StkIsSeq
<1>2. Abstract!Depth = stack_size
  BY <1>1 DEF Abstract!Depth
<1>3. UNCHANGED <<stack, stack_top_idx, stack_bot_idx>> => Stk' = Stk
  OBVIOUS
<1>4. ASSUME PushOverLimit PROVE Abstract!PushOverLimit
  <2>1. stack_size + saved_overflow_len + 1 > MaxStackDepth
    BY <1>0, <1>1, <1>4 DEF PushOverLimit, CanPush, TypeOK
  <2>2. error = "none" /\ error' = "StackDepthLimitExceeded" /\ UNCHANGED saves /\ Stk' = Stk
    BY <1>3, <1>4 DEF PushOverLimit
  <2> HIDE DEF stack_size
  <2> QED
    BY <1>2, <2>1, <2>2 DEF Abstract!PushOverLimit, saves
<1>5. ASSUME RestoreTooDeep PROVE Abstract!RestoreTooDeep
  <2>1. /\ error = "none" /\ error' = "InvalidStackDepthOnReturn" /\ UNCHANGED saves
        /\ Stk' = Stk /\ stack_overflow_save_stack # <<>> /\ stack_size > MIN_STACK_DEPTH
    BY <1>3, <1>5 DEF RestoreTooDeep
  <2> HIDE DEF stack_size
  <2> QED
    BY <1>2, <2>1 DEF Abstract!RestoreTooDeep, saves
<1> QED
  BY <1>4, <1>5

\* Every step of the buffer is a step of the operand stack.
LEMMA RefineNext ==
    ASSUME IInv, IInv', [Next]_vars
    PROVE  [Abstract!Next]_(Abstract!vars)
<1>1. ASSUME NEW v \in Felt, PushInPlace(v) \/ PushGrow(v)
      PROVE  Abstract!Next
  BY <1>1, RefinePush DEF Abstract!Next
<1>2. CASE PushOverLimit \/ RestoreTooDeep
  BY <1>2, RefineErrors DEF Abstract!Next
<1>3. CASE DropInPlace \/ DropReset
  BY <1>3, RefineDrop DEF Abstract!Next
<1>4. ASSUME NEW idx \in 0..(MIN_STACK_DEPTH - 1), NEW v \in Felt, Set(idx, v)
      PROVE  Abstract!Next
  BY <1>4, RefineSet DEF Abstract!Next
<1>5. ASSUME NEW i \in 0..(MIN_STACK_DEPTH - 1), NEW j \in 0..(MIN_STACK_DEPTH - 1),
             Swap(i, j)
      PROVE  Abstract!Next
  BY <1>5, RefineSwap DEF Abstract!Next
<1>6. ASSUME NEW n \in 1..MIN_STACK_DEPTH, RotateLeft(n) \/ RotateRight(n)
      PROVE  Abstract!Next
  BY <1>6, RefineRotate DEF Abstract!Next
<1>7. CASE StartContext
  BY <1>7, RefineStartContext DEF Abstract!Next
<1>8. CASE RestoreInPlace \/ RestoreReset \/ RestoreGrow
  BY <1>8, RefineRestore DEF Abstract!Next
<1>9. CASE UNCHANGED vars
  BY <1>9 DEF vars, Abstract!vars
<1> QED
  BY <1>1, <1>2, <1>3, <1>4, <1>5, <1>6, <1>7, <1>8, <1>9 DEF Next

\* The buffer implements the operand stack of OperandStack.
THEOREM Implements == Spec => ImplementsOperandStack
<1>1. IInv /\ IInv' /\ [Next]_vars => [Abstract!Next]_(Abstract!vars)
  BY RefineNext
<1> QED
  BY Invariance, RefineInit, <1>1, PTL DEF Spec, ImplementsOperandStack, Abstract!Spec

\* Context switches move elements and create none.
THEOREM SwitchConserves == Spec => SwitchConservesDepth
<1> USE Constants
<1> DEFINE before == stack_size + saved_overflow_len
           after  == stack_size' + saved_overflow_len'
           A == IF stack_overflow_save_stack' # stack_overflow_save_stack
                  THEN after = before
                  ELSE after \in {before - 1, before, before + 1}
<1>1. ASSUME IInv, Next PROVE A
  <2>0. /\ TypeOK /\ LiveStackInBuffer /\ stack_size \in Nat /\ before \in Nat
    BY <1>1, StkIsSeq DEF IInv, TypeOK
  <2>1. CASE StartContext
    BY <2>0, <2>1 DEF StartContext, TypeOK
  <2>2. CASE RestoreInPlace \/ RestoreReset \/ RestoreGrow
    <3>1. Returning /\ PopSaved /\ stack_size = MIN_STACK_DEPTH
      BY <2>0, <2>2 DEF RestoreInPlace, RestoreReset, RestoreGrow, Returning, TypeOK,
                        LiveStackInBuffer
    <3>2. /\ Len(target_overflow) \in Nat
          /\ saved_overflow_len' = saved_overflow_len - Len(target_overflow)
      BY <1>1, <3>1, PoppedSegment DEF Returning
    <3>3. stack_size' = stack_size + Len(target_overflow)
      <4>1. CASE RestoreInPlace
        BY <2>0, <3>2, <4>1 DEF RestoreInPlace, TypeOK
      <4>2. CASE RestoreReset
        BY <2>0, <3>1, <3>2, <4>2 DEF RestoreReset, TypeOK
      <4>3. CASE RestoreGrow
        BY <2>0, <3>1, <3>2, <4>3 DEF RestoreGrow, TypeOK
      <4> QED
        BY <2>2, <4>1, <4>2, <4>3
    <3>4. after = before
      BY <2>0, <3>2, <3>3 DEF TypeOK
    <3> QED
      BY <3>4
  <2>3. CASE \E v \in Felt : PushInPlace(v) \/ PushGrow(v)
    <3>1. stack_size' = stack_size + 1 /\ UNCHANGED saves
      BY <2>0, <2>3 DEF PushInPlace, PushGrow, TypeOK
    <3> QED
      BY <2>0, <3>1 DEF saves, TypeOK
  <2>4. CASE DropInPlace \/ DropReset
    <3>1. stack_size' \in {stack_size - 1, stack_size} /\ UNCHANGED saves
      BY <2>0, <2>4, SMTT(30) DEF DropInPlace, DropReset, AtMost, TypeOK, LiveStackInBuffer
    <3> QED
      BY <2>0, <3>1 DEF saves, TypeOK
  <2>5. CASE UNCHANGED <<stack_top_idx, stack_bot_idx, saves>>
    BY <2>0, <2>5 DEF saves
  <2> QED
    BY <1>1, <2>1, <2>2, <2>3, <2>4, <2>5
       DEF Next, PushOverLimit, RestoreTooDeep, Set, Swap, RotateLeft, RotateRight
<1>2. IInv /\ [Next]_vars => [A]_vars
  BY <1>1
<1> HIDE DEF A
<1>3. Spec => [][A]_vars
  BY Invariance, <1>2, PTL DEF Spec
<1> QED
  BY <1>3 DEF SwitchConservesDepth, A
=============================================================================
