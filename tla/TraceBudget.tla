---------------------------- MODULE TraceBudget ----------------------------
(***************************************************************************)
(* The row caps and the memory budget of trace building: the peak memory   *)
(* model of air/src/memory.rs and the checks of build_trace_inner, up to   *)
(* the point where the trace is known to be accepted.                      *)
(***************************************************************************)
EXTENDS Integers, Sequences, FiniteSets

CONSTANTS
    UsizeMax,       \* usize::MAX
    U64Max,         \* u64::MAX
    MAX_TRACE_LEN,
    MIN_TRACE_LEN,
    CoreRowBytes,   \* size of a row of the core buffer
    None            \* the absent value of an Option

ASSUME BudgetAssumption ==
    /\ UsizeMax \in Nat \ {0} /\ U64Max \in Nat
    /\ MAX_TRACE_LEN \in 1..UsizeMax /\ MIN_TRACE_LEN \in 1..MAX_TRACE_LEN
    /\ CoreRowBytes \in Nat \ {0}
    /\ None \notin Nat

\* Core, Chiplets and Poseidon2Permutation, in AIRS order: committed base-field
\* columns, main and auxiliary, in units of a field element.
Columns == <<59, 28, 18>>
Airs == DOMAIN Columns
Blowup == 8
QuotientDegree == 8
FELT_BYTES == 8
SharedRowBytes == (2 * FELT_BYTES * QuotientDegree * Blowup) + (3 * 2 * Blowup * 32)

AtLeast(a, b) == IF a >= b THEN a ELSE b
AtMost(a, b) == IF a <= b THEN a ELSE b

\* Every intermediate of the checked arithmetic is at most the scaled total.
prover_peak_bytes(heights) ==
    LET perAir(i) == heights[i] * FELT_BYTES * (Blowup + 1) * Columns[i]
        maxHeight == AtLeast(heights[1], AtLeast(heights[2], heights[3]))
        modelled == perAir(1) + perAir(2) + perAir(3) + maxHeight * SharedRowBytes
    IN  IF 5 * modelled > U64Max THEN None ELSE (5 * modelled + 3) \div 4

fits(heights, budget) ==
    prover_peak_bytes(heights) # None /\ prover_peak_bytes(heights) <= budget

OnlyAir(i, n) == [j \in Airs |-> IF j = i THEN n ELSE 0]

\* Binary search for the largest height of one AIR, every other held at zero.
bisect(i, budget) ==
    LET search[range \in Nat \X Nat] ==
            LET lo  == range[1]
                hi  == range[2]
                mid == lo + (hi - lo) \div 2
            IN  IF hi - lo <= 1 THEN lo
                ELSE IF fits(OnlyAir(i, mid), budget) THEN search[<<mid, hi>>]
                ELSE search[<<lo, mid>>]
    IN  search

max_height_for_budget(i, budget) ==
    IF fits(OnlyAir(i, UsizeMax), budget) THEN UsizeMax ELSE bisect(i, budget)[<<0, UsizeMax>>]

\* Mutant: the widest AIR alone decides.
core_height_for_budget(budget) == max_height_for_budget(1, budget)

\* The permissive cap: no AIR alone can be taller.
max_any_height_for_budget(budget) ==
    AtLeast(max_height_for_budget(1, budget),
            AtLeast(max_height_for_budget(2, budget), max_height_for_budget(3, budget)))

max_trace_len(budget) == AtMost(MAX_TRACE_LEN, max_any_height_for_budget(budget))

max_core_alloc_len(budget) == AtMost(MAX_TRACE_LEN, AtMost(UsizeMax, budget \div CoreRowBytes))

power_of_two[k \in Nat] == IF k = 0 THEN 1 ELSE 2 * power_of_two[k - 1]

\* The smallest power of two that is at least n.
next_power_of_two(n) ==
    power_of_two[CHOOSE k \in 0..n : /\ power_of_two[k] >= n
                                     /\ \A j \in 0..(k - 1) : power_of_two[j] < n]

\* The next power of two, at least MIN_TRACE_LEN.
pad_to_trace_length(n) == AtLeast(next_power_of_two(n), MIN_TRACE_LEN)

\* Row counts of an execution: fragments and their size, core rows once
\* replayed (range table included), chiplet rows other than the hasher's, and
\* permutations.
Heights(rows, hasherRows) ==
    << pad_to_trace_length(rows.core),
       pad_to_trace_length(rows.non_hasher + hasherRows),
       pad_to_trace_length(rows.permutations) >>

TraceLenExceeded(cap) == [kind |-> "trace_len_exceeded", cap |-> cap]
ProverMemoryExceeded == [kind |-> "prover_memory_exceeded", cap |-> None]

\* build_trace_inner: what it returns for the rows of an execution and the rows
\* the hasher takes, whether the hasher was built before or is built here.
build_trace_inner(rows, hasherRows, budget) ==
    LET heights == Heights(rows, hasherRows)
        cap == max_trace_len(budget)
        coreCap == max_core_alloc_len(budget)
    IN  IF rows.fragments * rows.fragment_size + 1 > coreCap
          THEN TraceLenExceeded(coreCap)
        ELSE IF rows.non_hasher > cap \/ hasherRows > cap - rows.non_hasher
          THEN TraceLenExceeded(cap)
        ELSE IF \E i \in Airs : heights[i] > MAX_TRACE_LEN
          THEN TraceLenExceeded(MAX_TRACE_LEN)
        ELSE IF ~fits(heights, budget)
          THEN ProverMemoryExceeded
        ELSE [kind |-> "trace", cap |-> None]
=============================================================================
