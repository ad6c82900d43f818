------------------------ MODULE AdviceProviderProofs ------------------------
(***************************************************************************)
(* The advice provider's totals are exact, its entries are kept and its    *)
(* failing calls change nothing, for every limit, every initial advice and *)
(* mutations of any size.                                                  *)
(***************************************************************************)
EXTENDS AdviceProvider, FiniteSetTheorems, TLAPS

----------------------------------------------------------------------------
(* Finite sets and induction                                               *)

\* Induction over the naturals, with the set of numbers that have the property
\* in place of the property.
LEMMA NatSetInduction ==
    ASSUME NEW A, 0 \in A, \A n \in Nat : n \in A => n + 1 \in A
    PROVE  Nat \subseteq A
<1> DEFINE Less == OpToRel(<, Nat)
           Out == Nat \ A
<1>1. IsWellFoundedOn(Less, Nat)
  BY NatLessThanWellFounded, Zenon
<1>2. \A m, n \in Nat : m < n => <<m, n>> \in Less
  BY DEF OpToRel
<1> SUFFICES ASSUME Out # {} PROVE FALSE
  OBVIOUS
<1>3. Out \subseteq Nat
  OBVIOUS
<1> HIDE DEF Less
<1>4. PICK n \in Out : \A m \in Out : <<m, n>> \notin Less
  BY <1>1, <1>3, WFMin, Zenon
<1>5. n \in Nat /\ n \notin A /\ n - 1 \in Nat /\ n - 1 < n /\ (n - 1) + 1 = n
  OBVIOUS
<1>6. n - 1 \in A
  BY <1>2, <1>4, <1>5, Zenon
<1> QED
  BY <1>5, <1>6

\* What is added to a finite set counts in full if it is new.
LEMMA CountNew ==
    ASSUME NEW S, NEW T, IsFiniteSet(S), IsFiniteSet(T)
    PROVE  /\ IsFiniteSet(S \cup T) /\ IsFiniteSet(T \ S)
           /\ Cardinality(S) \in Nat /\ Cardinality(T \ S) \in Nat
           /\ Cardinality(S \cup T) = Cardinality(S) + Cardinality(T \ S)
<1>1. IsFiniteSet(T \ S)
  BY FS_Difference, Zenon
<1>2. S \cup T = S \cup (T \ S) /\ S \cap (T \ S) = {}
  OBVIOUS
<1>3. Cardinality(S \cup (T \ S)) = Cardinality(S) + Cardinality(T \ S) - Cardinality(S \cap (T \ S))
  BY <1>1, FS_Union
<1>4. Cardinality(S) \in Nat /\ Cardinality(T \ S) \in Nat /\ IsFiniteSet(S \cup T)
  BY <1>1, FS_CardinalityType, FS_Union, Zenon
<1>5. Cardinality(S \cap (T \ S)) = 0
  BY <1>2, FS_EmptySet
<1>6. Cardinality(S \cup T) = Cardinality(S) + Cardinality(T \ S) - 0
  BY <1>2, <1>3, <1>5
<1> QED
  BY <1>1, <1>4, <1>6

\* The values of a function on a finite set are finitely many.
LEMMA FiniteImage ==
    ASSUME NEW S, IsFiniteSet(S), NEW f, DOMAIN f = S
    PROVE  IsFiniteSet({f[x] : x \in S})
<1> DEFINE T == {f[x] : x \in S}
           g == [x \in S |-> f[x]]
<1>1. g \in Surjection(S, T)
  BY DEF Surjection
<1> HIDE DEF T, g
<1> QED
  BY <1>1, FS_Surjection DEF T

----------------------------------------------------------------------------
(* The bytes of a map                                                      *)

\* A finite map has finitely many places.
LEMMA FinitePlaces ==
    ASSUME NEW map, IsAdviceMap(map)
    PROVE  IsFiniteSet(Places(map))
<1> DEFINE At == [k \in DOMAIN map |-> {<<k, i>> : i \in 1 .. Len(map[k])}]
<1>1. IsFiniteSet({At[k] : k \in DOMAIN map})
  BY FiniteImage, Zenon DEF IsAdviceMap
<1>2. ASSUME NEW k \in DOMAIN map PROVE IsFiniteSet(At[k])
  <2> DEFINE pair == [i \in 1 .. Len(map[k]) |-> <<k, i>>]
  <2>1. IsFiniteSet(1 .. Len(map[k]))
    BY FS_Interval DEF IsAdviceMap
  <2>2. IsFiniteSet({pair[i] : i \in 1 .. Len(map[k])})
    <3>1. DOMAIN pair = 1 .. Len(map[k])
      OBVIOUS
    <3> HIDE DEF pair
    <3> QED
      BY <2>1, <3>1, FiniteImage
  <2> QED
    BY <2>2, Zenon
<1>3. IsFiniteSet(UNION {At[k] : k \in DOMAIN map})
  <2> HIDE DEF At
  <2> QED
    BY <1>1, <1>2, FS_UNION
<1>4. {At[k] : k \in DOMAIN map} = {{<<k, i>> : i \in 1 .. Len(map[k])} : k \in DOMAIN map}
  BY Zenon
<1> HIDE DEF At
<1> QED
  BY <1>3, <1>4, Zenon DEF Places

\* The new entries of a merge are charged what the merged map has more.
LEMMA MergeBytes ==
    ASSUME NEW map, NEW other, IsAdviceMap(map), IsAdviceMap(other)
    PROVE  LET merged == merge_new(map, other)
           IN  /\ IsAdviceMap(merged) /\ map_entry_bytes(NewEntries(map, other)) \in Nat
               /\ felt_bytes(total_element_count(merged)) =
                    felt_bytes(total_element_count(map)) + map_entry_bytes(NewEntries(map, other))
               /\ total_element_count(map) \in Nat
<1> DEFINE fresh == NewEntries(map, other)
           merged == merge_new(map, other)
<1>1. /\ DOMAIN fresh = DOMAIN other \ DOMAIN map
      /\ DOMAIN merged = DOMAIN map \cup DOMAIN other
      /\ \A k \in DOMAIN fresh : fresh[k] = other[k] /\ merged[k] = other[k]
      /\ \A k \in DOMAIN map : merged[k] = map[k]
  BY DEF NewEntries, merge_new
<1> HIDE DEF fresh, merged
<1>2. /\ IsFiniteSet(DOMAIN merged) /\ IsFiniteSet(DOMAIN fresh)
      /\ Cardinality(DOMAIN map) \in Nat /\ Cardinality(DOMAIN fresh) \in Nat
      /\ Cardinality(DOMAIN merged) = Cardinality(DOMAIN map) + Cardinality(DOMAIN fresh)
  <2> DEFINE S == DOMAIN map
             T == DOMAIN other
  <2>1. IsFiniteSet(S) /\ IsFiniteSet(T)
    BY DEF IsAdviceMap
  <2>2. DOMAIN fresh = T \ S /\ DOMAIN merged = S \cup T /\ DOMAIN map = S
    BY <1>1
  <2> HIDE DEF S, T
  <2>3. /\ IsFiniteSet(S \cup T) /\ IsFiniteSet(T \ S)
        /\ Cardinality(S) \in Nat /\ Cardinality(T \ S) \in Nat
        /\ Cardinality(S \cup T) = Cardinality(S) + Cardinality(T \ S)
    BY <2>1, CountNew, Zenon
  <2> QED
    BY <2>2, <2>3, Zenon
<1>3. IsAdviceMap(merged) /\ IsAdviceMap(fresh)
  BY <1>1, <1>2 DEF IsAdviceMap
<1>4. Places(merged) = Places(map) \cup Places(fresh) /\ Places(fresh) \ Places(map) = Places(fresh)
  BY <1>1 DEF Places
<1>5. IsFiniteSet(Places(map)) /\ IsFiniteSet(Places(fresh))
  BY <1>3, FinitePlaces
<1>6. /\ Cardinality(Places(map)) \in Nat /\ Cardinality(Places(fresh)) \in Nat
      /\ Cardinality(Places(merged)) = Cardinality(Places(map)) + Cardinality(Places(fresh))
  BY <1>4, <1>5, CountNew, Zenon
<1>7. /\ total_element_count(map) \in Nat /\ map_entry_bytes(fresh) \in Nat
      /\ felt_bytes(total_element_count(merged)) =
                    felt_bytes(total_element_count(map)) + map_entry_bytes(fresh)
  BY <1>2, <1>6 DEF total_element_count, map_entry_bytes, felt_bytes, FELT_SIZE_BYTES, WORD_SIZE
<1> QED
  BY <1>3, <1>7 DEF fresh, merged

----------------------------------------------------------------------------
(* The calls                                                               *)

Fields == {"stack", "map", "store", "nodeCount", "size", "max"}

\* A provider, whatever its totals.
IsAdvice(a) ==
    /\ a = [x \in Fields |-> a[x]]
    /\ a.stack \in Nat /\ a.max \in Nat
    /\ IsAdviceMap(a.map) /\ a.map = [k \in DOMAIN a.map |-> a.map[k]]
    /\ IsFiniteSet(a.store)

\* A provider whose totals are right.
Exact(a) ==
    /\ IsAdvice(a)
    /\ a.nodeCount = Cardinality(a.store)
    /\ a.size = compute_advice_size_bytes(a)
    /\ a.size <= a.max

\* Everything a knows, b knows.
Keeps(a, b) ==
    /\ a.store \subseteq b.store
    /\ \A k \in DOMAIN a.map : k \in DOMAIN b.map /\ b.map[k] = a.map[k]

\* What every call on a may return.
Proper(a, result) ==
    /\ Exact(result.advice)
    /\ Keeps(a, result.advice)
    /\ ~result.ok => result.advice = a

\* The totals are numbers.
LEMMA ExactTypes ==
    ASSUME NEW a, Exact(a)
    PROVE  /\ a.size \in Nat /\ a.stack \in Nat /\ a.max \in Nat
           /\ a.nodeCount \in Nat /\ total_element_count(a.map) \in Nat
           /\ a.size = 8 * a.stack + 8 * total_element_count(a.map) + 96 * a.nodeCount
<1>1. a.nodeCount \in Nat
  BY FS_CardinalityType DEF Exact, IsAdvice
<1>2. total_element_count(a.map) \in Nat
  BY MergeBytes DEF Exact, IsAdvice
<1> QED
  BY <1>1, <1>2 DEF Exact, IsAdvice, compute_advice_size_bytes, felt_bytes, merkle_node_bytes,
     FELT_SIZE_BYTES, WORD_SIZE, INTERNAL_NODE_SIZE_BYTES

\* A call that fails, or has nothing to do, is proper.
LEMMA Nothing ==
    ASSUME NEW a, Exact(a)
    PROVE  Proper(a, Ok(a)) /\ Proper(a, Err(a))
BY DEF Proper, Keeps, Ok, Err

\* Adding nodes to the store, alone and within a call.
LEMMA AddNodesIsProper ==
    ASSUME NEW a, NEW nodes, Exact(a), IsFiniteSet(nodes)
    PROVE  Proper(a, AddNodes(a, nodes))
<1> DEFINE added == Cardinality(nodes \ a.store)
           b == [a EXCEPT !.store = @ \cup nodes, !.nodeCount = @ + added,
                          !.size = @ + merkle_node_bytes(added)]
<1>1. CASE ~check_advice_size_addition(a, merkle_node_bytes(added))
  BY <1>1, Nothing DEF AddNodes
<1>2. CASE check_advice_size_addition(a, merkle_node_bytes(added))
  <2>1. AddNodes(a, nodes) = Ok(b)
    BY <1>2 DEF AddNodes
  <2>2. /\ IsFiniteSet(a.store \cup nodes) /\ added \in Nat
        /\ Cardinality(a.store \cup nodes) = Cardinality(a.store) + added
    BY CountNew, Zenon DEF Exact, IsAdvice
  <2> HIDE DEF added
  <2>3. /\ b = [x \in Fields |-> b[x]] /\ b.stack = a.stack /\ b.map = a.map /\ b.max = a.max
        /\ b.store = a.store \cup nodes /\ b.nodeCount = a.nodeCount + added
        /\ b.size = a.size + merkle_node_bytes(added)
    BY Zenon DEF Exact, IsAdvice, Fields
  <2> HIDE DEF b
  <2>4. IsAdvice(b)
    BY <2>2, <2>3, Zenon DEF Exact, IsAdvice
  <2>5. b.nodeCount = Cardinality(b.store) /\ b.size <= b.max
    BY <1>2, <2>2, <2>3, Zenon DEF Exact, check_advice_size_addition
  <2>6. b.size = compute_advice_size_bytes(b)
    BY <2>2, <2>3, ExactTypes
    DEF compute_advice_size_bytes, felt_bytes, merkle_node_bytes,
        FELT_SIZE_BYTES, WORD_SIZE, INTERNAL_NODE_SIZE_BYTES
  <2>7. Keeps(a, b)
    BY <2>3 DEF Keeps
  <2> QED
    BY <2>1, <2>4, <2>5, <2>6, <2>7 DEF Proper, Exact, Ok
<1> QED
  BY <1>1, <1>2

\* Pushing elements.
LEMMA ExtendStackIsProper ==
    ASSUME NEW a, NEW count \in Nat, Exact(a)
    PROVE  Proper(a, extend_advice_stack(a, count))
<1> DEFINE b == [a EXCEPT !.stack = @ + count, !.size = @ + felt_bytes(count)]
<1>1. CASE ~check_advice_size_addition(a, felt_bytes(count))
  BY <1>1, Nothing DEF extend_advice_stack
<1>2. CASE check_advice_size_addition(a, felt_bytes(count))
  <2>1. extend_advice_stack(a, count) = Ok(b)
    BY <1>2 DEF extend_advice_stack
  <2>2. /\ b = [x \in Fields |-> b[x]] /\ b.map = a.map /\ b.max = a.max
        /\ b.store = a.store /\ b.nodeCount = a.nodeCount
        /\ b.stack = a.stack + count /\ b.size = a.size + felt_bytes(count)
    BY Zenon DEF Exact, IsAdvice, Fields
  <2> HIDE DEF b
  <2>3. IsAdvice(b)
    <3>1. b.stack \in Nat
      BY <2>2, ExactTypes
    <3> QED
      BY <2>2, <3>1, Zenon DEF Exact, IsAdvice
  <2>4. b.size = compute_advice_size_bytes(b)
    BY <2>2, ExactTypes
    DEF Exact, compute_advice_size_bytes, felt_bytes, merkle_node_bytes,
        FELT_SIZE_BYTES, WORD_SIZE, INTERNAL_NODE_SIZE_BYTES
  <2> QED
    BY <1>2, <2>1, <2>2, <2>3, <2>4 DEF Proper, Exact, Keeps, Ok, check_advice_size_addition
<1> QED
  BY <1>1, <1>2

\* Popping elements.
LEMMA PopStackIsProper ==
    ASSUME NEW a, NEW count \in Nat, Exact(a)
    PROVE  Proper(a, pop_stack(a, count))
<1> DEFINE b == [a EXCEPT !.stack = @ - count, !.size = @ - felt_bytes(count)]
<1>1. CASE ~(a.stack >= count)
  BY <1>1, Nothing DEF pop_stack
<1>2. CASE a.stack >= count
  <2>1. pop_stack(a, count) = Ok(b)
    BY <1>2 DEF pop_stack
  <2>2. /\ b = [x \in Fields |-> b[x]] /\ b.map = a.map /\ b.max = a.max
        /\ b.store = a.store /\ b.nodeCount = a.nodeCount
        /\ b.stack = a.stack - count /\ b.size = a.size - felt_bytes(count)
    BY Zenon DEF Exact, IsAdvice, Fields
  <2> HIDE DEF b
  <2>3. IsAdvice(b)
    <3>1. b.stack \in Nat
      BY <1>2, <2>2, ExactTypes
    <3> QED
      BY <2>2, <3>1, Zenon DEF Exact, IsAdvice
  <2>4. b.size = compute_advice_size_bytes(b) /\ b.size <= b.max
    BY <2>2, ExactTypes
    DEF Exact, compute_advice_size_bytes, felt_bytes, merkle_node_bytes,
        FELT_SIZE_BYTES, WORD_SIZE, INTERNAL_NODE_SIZE_BYTES
  <2> QED
    BY <2>1, <2>2, <2>3, <2>4 DEF Proper, Exact, Keeps, Ok
<1> QED
  BY <1>1, <1>2

\* Merging a map.
LEMMA ExtendMapIsProper ==
    ASSUME NEW a, NEW other, Exact(a), IsAdviceMap(other)
    PROVE  Proper(a, extend_map(a, other))
<1> DEFINE added == map_entry_bytes(NewEntries(a.map, other))
           b == [a EXCEPT !.map = merge_new(@, other), !.size = @ + added]
           fits == ~Conflict(a.map, other) /\ check_advice_size_addition(a, added)
<1>1. CASE ~fits
  BY <1>1, Nothing DEF extend_map
<1>2. CASE fits
  <2>1. extend_map(a, other) = Ok(b)
    BY <1>2 DEF extend_map
  <2>2. /\ b = [x \in Fields |-> b[x]] /\ b.stack = a.stack /\ b.max = a.max
        /\ b.store = a.store /\ b.nodeCount = a.nodeCount
        /\ b.map = merge_new(a.map, other) /\ b.size = a.size + added
    BY Zenon DEF Exact, IsAdvice, Fields
  <2> HIDE DEF b
  <2>3. /\ IsAdviceMap(b.map) /\ added \in Nat
        /\ felt_bytes(total_element_count(b.map)) = felt_bytes(total_element_count(a.map)) + added
    BY <2>2, MergeBytes DEF Exact, IsAdvice
  <2>4. b.map = [k \in DOMAIN b.map |-> b.map[k]] /\ Keeps(a, b)
    BY <2>2 DEF merge_new, Keeps
  <2> HIDE DEF added
  <2>5. IsAdvice(b)
    BY <2>2, <2>3, <2>4 DEF Exact, IsAdvice
  <2>6. b.size = compute_advice_size_bytes(b)
    BY <2>2, <2>3, ExactTypes
    DEF compute_advice_size_bytes, felt_bytes, merkle_node_bytes,
        FELT_SIZE_BYTES, WORD_SIZE, INTERNAL_NODE_SIZE_BYTES
  <2> QED
    BY <1>2, <2>1, <2>2, <2>4, <2>5, <2>6 DEF Proper, Exact, Ok, check_advice_size_addition
<1> QED
  BY <1>1, <1>2

----------------------------------------------------------------------------
(* The recursions                                                          *)

\* One round of each of them.
Round(job, i, last) ==
    CASE job.kind = "roots" -> <<last, last>>
      [] job.kind = "shift" -> last \div 2
      [] job.kind = "descent" ->
            IF last \in job.store THEN last[Bit(job.depth, job.index, i - 1)] ELSE EmptyLeaf
      [] job.kind = "nodes" -> Parent(job.hash, job.depth, job.index, job.depth - i, last)
      [] job.kind = "tally" -> Tally(job.advice, last, job.mutations[i])
      [] job.kind = "apply" -> TryApply(last, job.mutations[i])

\* f is the outcome of the first n rounds.
Rounds(job, first, n, f) ==
    f = [i \in 0 .. n |-> IF i = 0 THEN first ELSE Round(job, i, f[i - 1])]

\* The rounds can be gone through.
LEMMA RoundsExist ==
    ASSUME NEW job, NEW first, NEW n \in Nat
    PROVE  \E f : Rounds(job, first, n, f)
<1> DEFINE A == {m \in Nat : \E f : Rounds(job, first, m, f)}
<1>1. 0 \in A
  <2>1. Rounds(job, first, 0, [i \in 0 .. 0 |-> first])
    BY DEF Rounds
  <2> QED
    BY <2>1
<1>2. ASSUME NEW m \in Nat, m \in A PROVE m + 1 \in A
  <2>1. PICK f : Rounds(job, first, m, f)
    BY <1>2
  <2> DEFINE g == [i \in 0 .. m + 1 |-> IF i = m + 1 THEN Round(job, m + 1, f[m]) ELSE f[i]]
  <2>2. ASSUME NEW i \in 0 .. m + 1
        PROVE  g[i] = IF i = 0 THEN first ELSE Round(job, i, g[i - 1])
    <3>1. CASE i = m + 1
      <4>1. m \in 0 .. m + 1 /\ m # m + 1 /\ i - 1 = m /\ i # 0
        BY <3>1
      <4>2. g[m] = f[m] /\ g[i] = Round(job, m + 1, f[m])
        BY <3>1, <4>1
      <4> HIDE DEF g
      <4> QED
        BY <3>1, <4>1, <4>2
    <3>2. CASE i # m + 1
      <4>1. i \in 0 .. m /\ g[i] = f[i]
        BY <3>2
      <4>2. f[i] = IF i = 0 THEN first ELSE Round(job, i, f[i - 1])
        BY <2>1, <4>1 DEF Rounds
      <4>3. i # 0 => i - 1 \in 0 .. m + 1 /\ i - 1 # m + 1
        BY <4>1
      <4>4. i # 0 => g[i - 1] = f[i - 1]
        BY <4>3
      <4> HIDE DEF g
      <4> QED
        BY <4>1, <4>2, <4>4
    <3> QED
      BY <3>1, <3>2
  <2>3. g = [i \in 0 .. m + 1 |-> g[i]]
    OBVIOUS
  <2> HIDE DEF g
  <2>4. Rounds(job, first, m + 1, g)
    BY <2>2, <2>3, Zenon DEF Rounds
  <2> QED
    BY <2>4
<1> HIDE DEF A
<1>3. Nat \subseteq A
  BY <1>1, <1>2, NatSetInduction
<1> QED
  BY <1>3 DEF A

\* The roots of the empty subtrees, one from the other.
LEMMA EmptyRoots ==
    /\ EmptyRoot[0] = EmptyLeaf
    /\ \A i \in 1 .. EmptyDepth : EmptyRoot[i] = <<EmptyRoot[i - 1], EmptyRoot[i - 1]>>
<1> DEFINE job == [kind |-> "roots"]
<1>1. PICK f : Rounds(job, EmptyLeaf, EmptyDepth, f)
  BY RoundsExist, BoundsAssumption
<1>2. f = [height \in 0 .. EmptyDepth |->
             IF height = 0 THEN EmptyLeaf ELSE <<f[height - 1], f[height - 1]>>]
  BY <1>1, Zenon DEF Rounds, Round
<1>3. EmptyRoot = [height \in 0 .. EmptyDepth |->
             IF height = 0 THEN EmptyLeaf ELSE <<EmptyRoot[height - 1], EmptyRoot[height - 1]>>]
  BY <1>2, Zenon DEF EmptyRoot
<1> QED
  BY <1>3, BoundsAssumption

\* The tallies of a list, one from the other.
LEMMA TalliesStep ==
    ASSUME NEW a, NEW mutations, Len(mutations) \in Nat
    PROVE  LET tally == Tallies(a, mutations)
           IN  /\ tally[0] = NothingAdded
               /\ \A i \in 1 .. Len(mutations) : tally[i] = Tally(a, tally[i - 1], mutations[i])
<1> DEFINE n == Len(mutations)
           job == [kind |-> "tally", advice |-> a, mutations |-> mutations]
           tally == Tallies(a, mutations)
<1>1. PICK f : Rounds(job, NothingAdded, n, f)
  BY RoundsExist
<1>2. f = [i \in 0 .. n |-> IF i = 0 THEN NothingAdded ELSE Tally(a, f[i - 1], mutations[i])]
  BY <1>1 DEF Rounds, Round
<1>3. tally = [i \in 0 .. n |-> IF i = 0 THEN NothingAdded ELSE Tally(a, tally[i - 1], mutations[i])]
  BY <1>2, Zenon DEF Tallies
<1> HIDE DEF tally
<1> QED
  BY <1>3 DEF tally

\* The results of a list, one from the other.
LEMMA ResultsStep ==
    ASSUME NEW a, NEW mutations, Len(mutations) \in Nat
    PROVE  LET result == Results(a, mutations)
           IN  /\ result[0] = Ok(a)
               /\ \A i \in 1 .. Len(mutations) : result[i] = TryApply(result[i - 1], mutations[i])
<1> DEFINE n == Len(mutations)
           job == [kind |-> "apply", mutations |-> mutations]
           result == Results(a, mutations)
<1>1. PICK f : Rounds(job, Ok(a), n, f)
  BY RoundsExist
<1>2. f = [i \in 0 .. n |-> IF i = 0 THEN Ok(a) ELSE TryApply(f[i - 1], mutations[i])]
  BY <1>1 DEF Rounds, Round
<1>3. result = [i \in 0 .. n |-> IF i = 0 THEN Ok(a) ELSE TryApply(result[i - 1], mutations[i])]
  BY <1>2, Zenon DEF Results
<1> HIDE DEF result
<1> QED
  BY <1>3 DEF result

\* The shifts of a position, one from the other.
LEMMA ShiftedStep ==
    ASSUME NEW position \in Nat
    PROVE  LET shifted == Shifted(position)
           IN  /\ shifted[0] = position
               /\ \A n \in Nat : n <= MaxDepth => shifted[n] \in Nat
               /\ \A n \in Nat : n + 1 <= MaxDepth => shifted[n + 1] = shifted[n] \div 2
<1> DEFINE job == [kind |-> "shift"]
           shifted == Shifted(position)
<1>1. PICK f : Rounds(job, position, MaxDepth, f)
  BY RoundsExist, BoundsAssumption
<1>2. f = [n \in 0 .. MaxDepth |-> IF n = 0 THEN position ELSE f[n - 1] \div 2]
  BY <1>1, Zenon DEF Rounds, Round
<1>3. shifted = [n \in 0 .. MaxDepth |-> IF n = 0 THEN position ELSE shifted[n - 1] \div 2]
  BY <1>2, Zenon DEF Shifted
<1> HIDE DEF shifted
<1>4. /\ shifted[0] = position
      /\ \A n \in Nat : n + 1 <= MaxDepth => shifted[n + 1] = shifted[n] \div 2
  <2>1. ASSUME NEW n \in Nat, n + 1 <= MaxDepth PROVE shifted[n + 1] = shifted[n] \div 2
    <3>1. n + 1 \in 0 .. MaxDepth /\ n + 1 # 0 /\ (n + 1) - 1 = n
      BY <2>1, BoundsAssumption
    <3> QED
      BY <1>3, <3>1, Zenon
  <2> QED
    BY <1>3, <2>1, BoundsAssumption
<1> DEFINE A == {n \in Nat : n <= MaxDepth => shifted[n] \in Nat}
<1>5. 0 \in A
  BY <1>4
<1>6. ASSUME NEW n \in Nat, n \in A PROVE n + 1 \in A
  BY <1>4, <1>6, BoundsAssumption
<1> HIDE DEF A
<1>7. Nat \subseteq A
  BY <1>5, <1>6, NatSetInduction
<1> QED
  BY <1>4, <1>7 DEF A, shifted

\* A path, one level from the other.
IsDescent(store, root, depth, index, hash) ==
    /\ hash[0] = root
    /\ \A level \in Nat : level + 1 <= depth =>
         hash[level + 1] = IF hash[level] \in store
                             THEN hash[level][Bit(depth, index, level)]
                             ELSE EmptyLeaf

\* The nodes that the model's recursion finds are such a path.
LEMMA DescentStep ==
    ASSUME NEW store, NEW root, NEW depth \in Nat, NEW index
    PROVE  IsDescent(store, root, depth, index, Descent(store, root, depth, index))
<1> DEFINE job == [kind |-> "descent", store |-> store, depth |-> depth, index |-> index]
           hash == Descent(store, root, depth, index)
<1>1. PICK f : Rounds(job, root, depth, f)
  BY RoundsExist
<1>2. f = [level \in 0 .. depth |->
            IF level = 0 THEN root
            ELSE IF f[level - 1] \in store THEN f[level - 1][Bit(depth, index, level - 1)]
            ELSE EmptyLeaf]
  BY <1>1 DEF Rounds, Round
<1>3. hash = [level \in 0 .. depth |->
            IF level = 0 THEN root
            ELSE IF hash[level - 1] \in store THEN hash[level - 1][Bit(depth, index, level - 1)]
            ELSE EmptyLeaf]
  BY <1>2, Zenon DEF Descent
<1> HIDE DEF hash
<1>4. ASSUME NEW level \in Nat, level + 1 <= depth
      PROVE  hash[level + 1] = IF hash[level] \in store
                                 THEN hash[level][Bit(depth, index, level)]
                                 ELSE EmptyLeaf
  <2>1. level + 1 \in 0 .. depth /\ level + 1 # 0 /\ (level + 1) - 1 = level
    BY <1>4
  <2> QED
    BY <1>3, <2>1
<1> QED
  BY <1>3, <1>4 DEF hash, IsDescent

\* The nodes above a value, one level from the other.
LEMMA NodesStep ==
    ASSUME NEW hash, NEW depth \in Nat, NEW index, NEW value
    PROVE  LET nodes == authenticated_nodes(hash, depth, index, value)
           IN  \A level \in Nat : level + 1 <= depth =>
                 nodes[level] = Parent(hash, depth, index, level,
                                       IF level + 1 = depth THEN value ELSE nodes[level + 1])
<1> DEFINE job == [kind |-> "nodes", hash |-> hash, depth |-> depth, index |-> index]
           node == CHOOSE g : g = [height \in 0 .. depth |->
                     IF height = 0 THEN value
                     ELSE Parent(hash, depth, index, depth - height, g[height - 1])]
           nodes == authenticated_nodes(hash, depth, index, value)
<1>1. PICK f : Rounds(job, value, depth, f)
  BY RoundsExist
<1>2. f = [height \in 0 .. depth |->
            IF height = 0 THEN value
            ELSE Parent(hash, depth, index, depth - height, f[height - 1])]
  BY <1>1, Zenon DEF Rounds, Round
<1>3. node = [height \in 0 .. depth |->
            IF height = 0 THEN value
            ELSE Parent(hash, depth, index, depth - height, node[height - 1])]
  BY <1>2, Zenon
<1>4. nodes = [level \in 0 .. depth - 1 |-> node[depth - level]]
  BY DEF authenticated_nodes
<1> HIDE DEF node, nodes
<1>5. ASSUME NEW level \in Nat, level + 1 <= depth
      PROVE  nodes[level] = Parent(hash, depth, index, level,
                                   IF level + 1 = depth THEN value ELSE nodes[level + 1])
  <2>1. /\ depth - level \in 0 .. depth /\ depth - level # 0 /\ depth - (depth - level) = level
        /\ level \in 0 .. depth - 1
    BY <1>5
  <2>2. nodes[level] = Parent(hash, depth, index, level, node[(depth - level) - 1])
    BY <1>3, <1>4, <2>1
  <2>3. CASE level + 1 = depth
    BY <1>3, <2>2, <2>3
  <2>4. CASE level + 1 # depth
    <3>1. level + 1 \in 0 .. depth - 1 /\ (depth - level) - 1 = depth - (level + 1)
      BY <1>5, <2>4
    <3> QED
      BY <1>4, <2>2, <2>4, <3>1
  <2> QED
    BY <2>3, <2>4
<1> QED
  BY <1>5 DEF nodes

----------------------------------------------------------------------------
(* What updating a node does to the tree                                   *)

\* A path takes the first or the second child.
LEMMA BitValue ==
    ASSUME NEW depth \in Nat, depth <= MaxDepth, NEW index \in Nat, NEW level \in 0 .. depth - 1
    PROVE  Bit(depth, index, level) \in {1, 2}
<1> DEFINE shifted == Shifted(index)
<1>1. depth - level - 1 \in Nat /\ depth - level - 1 <= MaxDepth
  BY BoundsAssumption
<1>2. shifted[depth - level - 1] \in Nat
  BY <1>1, ShiftedStep
<1> HIDE DEF shifted
<1>3. (shifted[depth - level - 1] % 2) + 1 \in {1, 2}
  BY <1>2
<1> QED
  BY <1>3 DEF Bit, shifted

\* Two valid positions at a depth whose paths take the same turns are the same.
LEMMA SameTurns ==
    ASSUME NEW depth \in Nat, depth <= MaxDepth, NEW i \in Nat, NEW j \in Nat,
           NodeIndex_new(depth, i), NodeIndex_new(depth, j),
           \A level \in 0 .. depth - 1 : Bit(depth, i, level) = Bit(depth, j, level)
    PROVE  i = j
<1> DEFINE x == Shifted(i)
           y == Shifted(j)
<1>1. /\ x[0] = i /\ y[0] = j
      /\ \A n \in Nat : n <= MaxDepth => x[n] \in Nat /\ y[n] \in Nat
      /\ \A n \in Nat : n + 1 <= MaxDepth => x[n + 1] = x[n] \div 2 /\ y[n + 1] = y[n] \div 2
  BY ShiftedStep
<1>2. x[depth] = 0 /\ y[depth] = 0
  BY DEF NodeIndex_new
<1>3. ASSUME NEW n \in Nat, n + 1 <= depth PROVE x[n] % 2 = y[n] % 2
  <2>1. depth - n - 1 \in 0 .. depth - 1 /\ depth - (depth - n - 1) - 1 = n
    BY <1>3
  <2>2. (x[n] % 2) + 1 = (y[n] % 2) + 1
    BY <2>1, Zenon DEF Bit
  <2> HIDE DEF x, y
  <2>3. x[n] \in Nat /\ y[n] \in Nat
    BY <1>1, <1>3, BoundsAssumption
  <2> QED
    BY <2>2, <2>3
<1> HIDE DEF x, y
<1> DEFINE A == {n \in Nat : n <= depth => x[depth - n] = y[depth - n]}
<1>4. 0 \in A
  BY <1>2
<1>5. ASSUME NEW n \in Nat, n \in A PROVE n + 1 \in A
  <2>1. SUFFICES ASSUME n + 1 <= depth PROVE x[depth - (n + 1)] = y[depth - (n + 1)]
    OBVIOUS
  <2> DEFINE m == depth - (n + 1)
  <2>2. m \in Nat /\ m + 1 = depth - n /\ m + 1 <= depth /\ m + 1 <= MaxDepth /\ m <= MaxDepth
    BY <2>1, BoundsAssumption
  <2> HIDE DEF m
  <2>3. x[m] \in Nat /\ y[m] \in Nat /\ x[m] % 2 = y[m] % 2
    BY <1>1, <1>3, <2>2
  <2>4. x[m] \div 2 = y[m] \div 2
    BY <1>1, <1>5, <2>1, <2>2
  <2>5. x[m] = y[m]
    BY <2>3, <2>4
  <2> QED
    BY <2>5 DEF m
<1> HIDE DEF A
<1>6. depth \in A
  BY <1>4, <1>5, NatSetInduction
<1> QED
  BY <1>1, <1>6 DEF A

\* The nodes above a new value, and the store with them.
Extended(store, root, depth, index, value, nodes, after) ==
    /\ nodes = authenticated_nodes(Descent(store, root, depth, index), depth, index, value)
    /\ after = store \cup {nodes[level] : level \in 0 .. depth - 1}
    /\ NodeIndex_new(depth, index) /\ has_path(store, root, depth, index)

\* The tree with the new nodes, followed along any path, has the new node at every
\* level as long as the path is the one to the changed position, and is the old
\* tree from where the path leaves it.
LEMMA UpdatedTree ==
    ASSUME NEW store, NEW root, NEW depth \in Nat, 0 < depth, depth <= MaxDepth,
           NEW index \in Nat, NEW value, NEW i \in Nat, NEW nodes, NEW after,
           Extended(store, root, depth, index, value, nodes, after),
           NodeIndex_new(depth, i), has_path(after, root, depth, i)
    PROVE  /\ has_path(after, nodes[0], depth, i)
           /\ get_node(after, nodes[0], depth, i) =
                IF i = index THEN value ELSE get_node(after, root, depth, i)
<1> DEFINE hash == Descent(store, root, depth, index)
           old == Descent(after, root, depth, i)
           now == Descent(after, nodes[0], depth, i)
           b(level) == Bit(depth, i, level)
           c(level) == Bit(depth, index, level)
           node(level) == IF level = depth THEN value ELSE nodes[level]
           Same(level) == /\ \A m \in 0 .. level - 1 : b(m) = c(m)
                          /\ now[level] = node(level) /\ old[level] = hash[level]
           Parted(level) == (\E m \in 0 .. level - 1 : b(m) # c(m)) /\ now[level] = old[level]
           A == {level \in Nat : level <= depth => Same(level) \/ Parted(level)}
<1>1. \A level \in 0 .. depth - 1 :
        hash[level] \in store /\ hash[level] \in after /\ old[level] \in after /\ nodes[level] \in after
  BY Zenon DEF has_path, Extended
<1>2. /\ hash[0] = root /\ old[0] = root /\ now[0] = nodes[0]
      /\ \A level \in Nat : level + 1 <= depth =>
           /\ hash[level + 1] = IF hash[level] \in store THEN hash[level][c(level)] ELSE EmptyLeaf
           /\ old[level + 1] = IF old[level] \in after THEN old[level][b(level)] ELSE EmptyLeaf
           /\ now[level + 1] = IF now[level] \in after THEN now[level][b(level)] ELSE EmptyLeaf
  <2>1. /\ IsDescent(store, root, depth, index, hash)
        /\ IsDescent(after, root, depth, i, old)
        /\ IsDescent(after, nodes[0], depth, i, now)
    BY DescentStep, Zenon
  <2> HIDE DEF hash, old, now
  <2> QED
    BY <2>1, Zenon DEF IsDescent
<1>3. ASSUME NEW level \in Nat, level + 1 <= depth
      PROVE  nodes[level] = IF c(level) = 1 THEN <<node(level + 1), hash[level][2]>>
                                            ELSE <<hash[level][1], node(level + 1)>>
  <2>1. nodes[level] = Parent(hash, depth, index, level, node(level + 1))
    <3>1. nodes[level] = Parent(hash, depth, index, level,
                                IF level + 1 = depth THEN value ELSE nodes[level + 1])
      BY <1>3, NodesStep DEF Extended
    <3> QED
      BY <3>1, Zenon
  <2> HIDE DEF node, hash
  <2> QED
    BY <2>1, Zenon DEF Parent
<1>4. \A level \in 0 .. depth - 1 : b(level) \in {1, 2} /\ c(level) \in {1, 2}
  BY BitValue
<1> HIDE DEF hash, old, now, b, c
<1>5. 0 \in A
  BY <1>2
<1>6. ASSUME NEW level \in Nat, level \in A PROVE level + 1 \in A
  <2>1. SUFFICES ASSUME level + 1 <= depth PROVE Same(level + 1) \/ Parted(level + 1)
    OBVIOUS
  <2>2. /\ level \in 0 .. depth - 1 /\ level # depth /\ level <= depth
        /\ 0 .. (level + 1) - 1 = (0 .. level - 1) \cup {level}
    BY <2>1
  <2>3. CASE Same(level)
    <3>1. /\ hash[level + 1] = hash[level][c(level)]
          /\ old[level + 1] = hash[level][b(level)]
          /\ now[level + 1] = nodes[level][b(level)]
      BY <1>1, <1>2, <2>1, <2>2, <2>3
    <3>2. nodes[level] = IF c(level) = 1 THEN <<node(level + 1), hash[level][2]>>
                                         ELSE <<hash[level][1], node(level + 1)>>
      BY <1>3, <2>1
    <3>3. b(level) \in {1, 2} /\ c(level) \in {1, 2}
      BY <1>4, <2>2
    <3> HIDE DEF node
    <3>4. CASE b(level) = c(level)
      <4>1. now[level + 1] = node(level + 1) /\ old[level + 1] = hash[level + 1]
        BY <3>1, <3>2, <3>3, <3>4
      <4> QED
        BY <2>2, <2>3, <3>4, <4>1
    <3>5. CASE b(level) # c(level)
      <4>1. now[level + 1] = old[level + 1]
        BY <3>1, <3>2, <3>3, <3>5
      <4> QED
        BY <2>2, <3>5, <4>1
    <3> QED
      BY <3>4, <3>5
  <2>4. CASE Parted(level)
    <3>1. now[level + 1] = old[level + 1]
      BY <1>2, <2>1, <2>4
    <3> QED
      BY <2>2, <2>4, <3>1
  <2> QED
    BY <1>6, <2>2, <2>3, <2>4
<1> HIDE DEF A
<1>7. Nat \subseteq A
  BY <1>5, <1>6, NatSetInduction
<1>8. \A level \in 0 .. depth : Same(level) \/ Parted(level)
  BY <1>7 DEF A
<1>9. has_path(after, nodes[0], depth, i)
  <2>1. \A level \in 0 .. depth - 1 : now[level] \in after
    BY <1>1, <1>8
  <2>2. nodes[0] \in after
    BY <1>1
  <2> QED
    BY <2>1, <2>2 DEF has_path, now
<1>10. now[depth] = IF i = index THEN value ELSE old[depth]
  <2>1. CASE Same(depth)
    <3>1. \A level \in 0 .. depth - 1 : Bit(depth, i, level) = Bit(depth, index, level)
      BY <2>1 DEF b, c
    <3>2. i = index
      BY <3>1, SameTurns DEF Extended
    <3> QED
      BY <2>1, <3>2
  <2>2. CASE Parted(depth)
    <3>1. i # index
      BY <2>2, Zenon DEF b, c
    <3> QED
      BY <2>2, <3>1
  <2> QED
    BY <1>8, <2>1, <2>2
<1> QED
  BY <1>9, <1>10, Zenon DEF get_node, now, old

\* An update that succeeds adds the nodes above the new value, or finds the value
\* there already.
Updated(a, root, depth, index, value, result) ==
    LET hash == Descent(a.store, root, depth, index)
        nodes == authenticated_nodes(hash, depth, index, value)
    IN  /\ NodeIndex_new(depth, index) /\ has_path(a.store, root, depth, index)
        /\ \/ hash[depth] = value /\ result.advice = a /\ result.root = root
           \/ /\ result.advice.store = a.store \cup {nodes[level] : level \in 0 .. depth - 1}
              /\ result.root = nodes[0]

\* This is what the model's call does when it succeeds below the root.
LEMMA UpdateDoes ==
    ASSUME NEW a, NEW root, NEW depth \in Nat, 0 < depth, NEW index \in Nat, NEW value,
           NEW result, result = update_merkle_node(a, root, depth, index, value), result.ok
    PROVE  Updated(a, root, depth, index, value, result)
<1> DEFINE hash == Descent(a.store, root, depth, index)
           nodes == authenticated_nodes(hash, depth, index, value)
           all == {nodes[level] : level \in 0 .. depth - 1}
           added == AddNodes(a, all)
           Rooted(called, newRoot) ==
               [ok |-> called.ok, advice |-> called.advice, root |-> newRoot]
           valid == NodeIndex_new(depth, index) /\ has_path(a.store, root, depth, index)
<1>1. result = IF ~valid THEN Rooted(Err(a), EmptyLeaf)
               ELSE IF hash[depth] = value THEN Rooted(Ok(a), root)
               ELSE Rooted(added, IF depth > 0 /\ added.ok THEN nodes[0] ELSE EmptyLeaf)
  BY Zenon DEF update_merkle_node
<1> HIDE DEF hash, nodes, all, added, valid
<1>2. valid
  BY <1>1 DEF Err
<1>3. CASE hash[depth] = value
  BY <1>1, <1>2, <1>3 DEF Ok, valid, hash, Updated
<1>4. CASE hash[depth] # value
  <2>1. added.ok /\ result.advice = added.advice /\ result.root = nodes[0]
    BY <1>1, <1>2, <1>4
  <2>2. added.advice.store = a.store \cup all
    BY <2>1 DEF added, AddNodes, Ok, Err
  <2> QED
    BY <1>2, <2>1, <2>2 DEF valid, all, nodes, hash, Updated
<1> QED
  BY <1>3, <1>4

----------------------------------------------------------------------------
(* Lists of mutations                                                      *)

TallyFields == {"ok", "added", "map", "nodes"}

IsTally(acc) ==
    /\ acc = [x \in TallyFields |-> acc[x]]
    /\ acc.ok \in BOOLEAN /\ acc.added \in Nat
    /\ IsAdviceMap(acc.map) /\ acc.map = [k \in DOMAIN acc.map |-> acc.map[k]]
    /\ IsFiniteSet(acc.nodes)

\* b is what a becomes by all that acc has counted.
Tallied(a, acc, b) ==
    /\ Exact(b)
    /\ b.max = a.max
    /\ b.size = a.size + acc.added
    /\ b.map = merge_new(a.map, acc.map)
    /\ b.store = a.store \cup acc.nodes

\* Merging is associative.
LEMMA MergeAssociative ==
    ASSUME NEW f, NEW g, NEW h
    PROVE  merge_new(merge_new(f, g), h) = merge_new(f, merge_new(g, h))
<1> DEFINE fg == merge_new(f, g)
           gh == merge_new(g, h)
<1>1. /\ DOMAIN fg = DOMAIN f \cup DOMAIN g
      /\ \A k \in DOMAIN fg : fg[k] = IF k \in DOMAIN f THEN f[k] ELSE g[k]
      /\ DOMAIN gh = DOMAIN g \cup DOMAIN h
      /\ \A k \in DOMAIN gh : gh[k] = IF k \in DOMAIN g THEN g[k] ELSE h[k]
  BY DEF merge_new
<1> HIDE DEF fg, gh
<1>2. merge_new(fg, h) = merge_new(f, gh)
  BY <1>1 DEF merge_new
<1> QED
  BY <1>2 DEF fg, gh

\* Nothing has been counted at the start.
LEMMA NothingTallied ==
    ASSUME NEW a, Exact(a)
    PROVE  IsTally(NothingAdded) /\ Tallied(a, NothingAdded, a)
<1>1. DOMAIN <<>> = {} /\ <<>> = [k \in {} |-> <<>>[k]]
  OBVIOUS
<1>2. IsTally(NothingAdded)
  BY <1>1, FS_EmptySet DEF NothingAdded, IsTally, TallyFields, IsAdviceMap
<1>3. merge_new(a.map, NothingAdded.map) = a.map
  BY <1>1 DEF merge_new, NothingAdded, Exact, IsAdvice
<1>4. a.size = a.size + NothingAdded.added /\ a.store = a.store \cup NothingAdded.nodes
  BY ExactTypes DEF NothingAdded
<1> QED
  BY <1>2, <1>3, <1>4 DEF Tallied

\* The tally is well formed and only grows.
LEMMA TallyGrows ==
    ASSUME NEW a, NEW acc, NEW m, Exact(a), IsTally(acc), IsMutation(m)
    PROVE  LET next == Tally(a, acc, m)
           IN  IsTally(next) /\ next.added >= acc.added /\ (next.ok => acc.ok)
<1> DEFINE next == Tally(a, acc, m)
<1>0. /\ acc = [x \in TallyFields |-> acc[x]] /\ acc.ok \in BOOLEAN /\ acc.added \in Nat
      /\ IsAdviceMap(acc.map) /\ IsFiniteSet(acc.nodes)
  BY DEF IsTally
<1>1. CASE m.kind = "ExtendStack" /\ m.stack \in Nat
  <2>1. next = [acc EXCEPT !.added = @ + felt_bytes(m.stack)]
    BY <1>1 DEF Tally
  <2>2. /\ next = [x \in TallyFields |-> next[x]] /\ next.ok = acc.ok
        /\ next.added = acc.added + felt_bytes(m.stack)
        /\ next.map = acc.map /\ next.nodes = acc.nodes
    BY <1>0, <2>1 DEF TallyFields
  <2> HIDE DEF next
  <2>3. next.added \in Nat /\ next.added >= acc.added
    BY <1>0, <1>1, <2>2 DEF felt_bytes, FELT_SIZE_BYTES
  <2>4. IsTally(next)
    BY <2>2, <2>3 DEF IsTally
  <2> QED
    BY <2>2, <2>3, <2>4 DEF next
<1>2. CASE m.kind = "ExtendMap" /\ IsAdviceMap(m.map)
  <2> DEFINE known == merge_new(a.map, acc.map)
             bytes == map_entry_bytes(NewEntries(known, m.map))
  <2>1. next = [acc EXCEPT !.ok = @ /\ ~Conflict(known, m.map), !.added = @ + bytes,
                           !.map = merge_new(@, m.map)]
    BY <1>2 DEF Tally
  <2>2. bytes \in Nat
    <3>1. IsAdviceMap(known)
      BY <1>0, MergeBytes DEF Exact, IsAdvice
    <3> HIDE DEF known
    <3> QED
      BY <1>2, <3>1, MergeBytes
  <2> HIDE DEF known, bytes
  <2>3. /\ next = [x \in TallyFields |-> next[x]] /\ next.ok = (acc.ok /\ ~Conflict(known, m.map))
        /\ next.added = acc.added + bytes
        /\ next.map = merge_new(acc.map, m.map) /\ next.nodes = acc.nodes
    BY <1>0, <2>1, Zenon DEF TallyFields
  <2> HIDE DEF next
  <2>4. next.added \in Nat /\ next.added >= acc.added
    BY <1>0, <2>2, <2>3
  <2>5. IsAdviceMap(next.map) /\ next.map = [k \in DOMAIN next.map |-> next.map[k]]
    <3>1. IsAdviceMap(merge_new(acc.map, m.map))
      BY <1>0, <1>2, MergeBytes
    <3> QED
      BY <2>3, <3>1 DEF merge_new
  <2>6. next.ok \in BOOLEAN /\ (next.ok => acc.ok)
    BY <1>0, <2>3, Zenon
  <2>7. IsTally(next)
    BY <1>0, <2>3, <2>4, <2>5, <2>6 DEF IsTally
  <2> QED
    BY <2>4, <2>6, <2>7 DEF next
<1>3. CASE m.kind = "ExtendMerkleStore" /\ IsFiniteSet(m.nodes)
  <2> DEFINE fresh == m.nodes \ (a.store \cup acc.nodes)
             bytes == merkle_node_bytes(Cardinality(fresh))
  <2>1. next = [acc EXCEPT !.added = @ + bytes, !.nodes = @ \cup fresh]
    BY <1>3 DEF Tally
  <2>2. IsFiniteSet(fresh)
    BY <1>3, FS_Difference, Zenon
  <2> HIDE DEF fresh
  <2>3. Cardinality(fresh) \in Nat /\ IsFiniteSet(acc.nodes \cup fresh)
    BY <1>0, <2>2, FS_CardinalityType, FS_Union, Zenon
  <2>4. bytes \in Nat
    BY <2>3 DEF merkle_node_bytes, INTERNAL_NODE_SIZE_BYTES, WORD_SIZE, FELT_SIZE_BYTES
  <2> HIDE DEF bytes
  <2>5. /\ next = [x \in TallyFields |-> next[x]] /\ next.ok = acc.ok
        /\ next.added = acc.added + bytes
        /\ next.map = acc.map /\ next.nodes = acc.nodes \cup fresh
    BY <1>0, <2>1, Zenon DEF TallyFields
  <2> HIDE DEF next
  <2>6. next.added \in Nat /\ next.added >= acc.added
    BY <1>0, <2>4, <2>5
  <2>7. IsTally(next)
    BY <2>3, <2>5, <2>6, Zenon DEF IsTally
  <2> QED
    BY <2>5, <2>6, <2>7 DEF next
<1> QED
  BY <1>1, <1>2, <1>3, Zenon DEF IsMutation

\* Pushed elements are charged as they were counted.
LEMMA StackTally ==
    ASSUME NEW a, NEW b, NEW acc, NEW m, Exact(a), IsTally(acc), Tallied(a, acc, b),
           m.kind = "ExtendStack", m.stack \in Nat,
           a.size + Tally(a, acc, m).added <= a.max
    PROVE  /\ apply_mutation(b, m).ok
           /\ Tallied(a, Tally(a, acc, m), apply_mutation(b, m).advice)
<1> DEFINE next == Tally(a, acc, m)
           result == apply_mutation(b, m)
           bytes == felt_bytes(m.stack)
           c == [b EXCEPT !.stack = @ + m.stack, !.size = @ + bytes]
<1>1. next = [acc EXCEPT !.added = @ + bytes] /\ result = extend_advice_stack(b, m.stack)
  BY DEF Tally, apply_mutation
<1>2. bytes \in Nat
  BY DEF felt_bytes, FELT_SIZE_BYTES
<1>3. next.added = acc.added + bytes /\ next.map = acc.map /\ next.nodes = acc.nodes
  BY <1>1 DEF IsTally, TallyFields
<1>4. b = [x \in Fields |-> b[x]] /\ Proper(b, result)
  BY <1>1, ExtendStackIsProper DEF Tallied, Exact, IsAdvice
<1>5. /\ c.size = b.size + bytes /\ c.max = b.max
      /\ c.map = b.map /\ c.store = b.store
  BY <1>4 DEF Fields
<1> HIDE DEF next, bytes, c
<1>6. b.size + bytes <= b.max /\ b.size + bytes = a.size + next.added
  BY <1>2, <1>3, ExactTypes DEF Tallied, IsTally, next
<1>7. result = Ok(c)
  BY <1>1, <1>6 DEF extend_advice_stack, check_advice_size_addition, bytes, c
<1> HIDE DEF result
<1>8. result.ok /\ result.advice = c
  BY <1>7 DEF Ok
<1>9. Exact(c)
  BY <1>4, <1>8 DEF Proper
<1> QED
  BY <1>3, <1>5, <1>6, <1>8, <1>9 DEF Tallied, next, result

\* So are the entries of a map.
LEMMA MapTally ==
    ASSUME NEW a, NEW b, NEW acc, NEW m, Exact(a), IsTally(acc), Tallied(a, acc, b),
           m.kind = "ExtendMap", IsAdviceMap(m.map),
           Tally(a, acc, m).ok, a.size + Tally(a, acc, m).added <= a.max
    PROVE  /\ apply_mutation(b, m).ok
           /\ Tallied(a, Tally(a, acc, m), apply_mutation(b, m).advice)
<1> DEFINE next == Tally(a, acc, m)
           result == apply_mutation(b, m)
           bytes == map_entry_bytes(NewEntries(b.map, m.map))
           c == [b EXCEPT !.map = merge_new(@, m.map), !.size = @ + bytes]
<1>1. /\ next = [acc EXCEPT !.ok = @ /\ ~Conflict(b.map, m.map), !.added = @ + bytes,
                            !.map = merge_new(@, m.map)]
      /\ result = extend_map(b, m.map)
  BY DEF Tally, apply_mutation, Tallied
<1>2. bytes \in Nat
  BY MergeBytes DEF Tallied, Exact, IsAdvice
<1> HIDE DEF bytes
<1>3. /\ next.ok = (acc.ok /\ ~Conflict(b.map, m.map)) /\ next.added = acc.added + bytes
      /\ next.map = merge_new(acc.map, m.map) /\ next.nodes = acc.nodes
  BY <1>1, Zenon DEF IsTally, TallyFields
<1>4. b = [x \in Fields |-> b[x]] /\ Proper(b, result)
  BY <1>1, ExtendMapIsProper DEF Tallied, Exact, IsAdvice
<1>5. /\ c.size = b.size + bytes /\ c.max = b.max
      /\ c.map = merge_new(b.map, m.map) /\ c.store = b.store
  BY <1>4 DEF Fields
<1> HIDE DEF next, c
<1>6. b.size + bytes <= b.max /\ b.size + bytes = a.size + next.added
  BY <1>2, <1>3, ExactTypes DEF Tallied, IsTally, next
<1>7. ~Conflict(b.map, m.map)
  BY <1>3, Zenon DEF next
<1>8. result = Ok(c)
  BY <1>1, <1>6, <1>7 DEF extend_map, check_advice_size_addition, bytes, c
<1> HIDE DEF result
<1>9. result.ok /\ result.advice = c
  BY <1>8 DEF Ok
<1>10. Exact(c)
  BY <1>4, <1>9 DEF Proper
<1>11. merge_new(b.map, m.map) = merge_new(a.map, next.map)
  BY <1>3, MergeAssociative DEF Tallied
<1> QED
  BY <1>3, <1>5, <1>6, <1>9, <1>10, <1>11 DEF Tallied, next, result

\* So are the nodes.
LEMMA NodesTally ==
    ASSUME NEW a, NEW b, NEW acc, NEW m, Exact(a), IsTally(acc), Tallied(a, acc, b),
           m.kind = "ExtendMerkleStore", IsFiniteSet(m.nodes),
           a.size + Tally(a, acc, m).added <= a.max
    PROVE  /\ apply_mutation(b, m).ok
           /\ Tallied(a, Tally(a, acc, m), apply_mutation(b, m).advice)
<1> DEFINE next == Tally(a, acc, m)
           result == apply_mutation(b, m)
           fresh == m.nodes \ b.store
           bytes == merkle_node_bytes(Cardinality(fresh))
           c == [b EXCEPT !.store = @ \cup m.nodes, !.nodeCount = @ + Cardinality(fresh),
                          !.size = @ + bytes]
<1>1. /\ next = [acc EXCEPT !.added = @ + bytes, !.nodes = @ \cup fresh]
      /\ result = AddNodes(b, m.nodes)
  BY DEF Tally, apply_mutation, extend_merkle_store, Tallied
<1>2. Cardinality(fresh) \in Nat
  BY FS_Difference, FS_CardinalityType, Zenon
<1>3. bytes \in Nat
  BY <1>2 DEF merkle_node_bytes, INTERNAL_NODE_SIZE_BYTES, WORD_SIZE, FELT_SIZE_BYTES
<1> HIDE DEF bytes
<1>4. /\ next.added = acc.added + bytes
      /\ next.map = acc.map /\ next.nodes = acc.nodes \cup fresh
  BY <1>1, Zenon DEF IsTally, TallyFields
<1>5. b = [x \in Fields |-> b[x]] /\ Proper(b, result)
  BY <1>1, AddNodesIsProper DEF Tallied, Exact, IsAdvice
<1>6. /\ c.size = b.size + bytes /\ c.max = b.max
      /\ c.map = b.map /\ c.store = b.store \cup m.nodes
  BY <1>5 DEF Fields
<1> HIDE DEF next, c
<1>7. b.size + bytes <= b.max /\ b.size + bytes = a.size + next.added
  BY <1>3, <1>4, ExactTypes DEF Tallied, IsTally, next
<1>8. result = Ok(c)
  BY <1>1, <1>7 DEF AddNodes, check_advice_size_addition, bytes, c
<1> HIDE DEF result
<1>9. result.ok /\ result.advice = c
  BY <1>8 DEF Ok
<1>10. Exact(c)
  BY <1>5, <1>9 DEF Proper
<1>11. b.store \cup m.nodes = a.store \cup next.nodes
  BY <1>4 DEF Tallied
<1> QED
  BY <1>4, <1>6, <1>7, <1>9, <1>10, <1>11 DEF Tallied, next, result

\* Any mutation of a valid list can be applied, and is charged as it was counted.
LEMMA TallyStep ==
    ASSUME NEW a, NEW b, NEW acc, NEW m, Exact(a), IsTally(acc), Tallied(a, acc, b), IsMutation(m),
           Tally(a, acc, m).ok, a.size + Tally(a, acc, m).added <= a.max
    PROVE  /\ apply_mutation(b, m).ok
           /\ Tallied(a, Tally(a, acc, m), apply_mutation(b, m).advice)
<1>1. CASE m.kind = "ExtendStack" /\ m.stack \in Nat
  BY <1>1, StackTally, Zenon
<1>2. CASE m.kind = "ExtendMap" /\ IsAdviceMap(m.map)
  BY <1>2, MapTally, Zenon
<1>3. CASE m.kind = "ExtendMerkleStore" /\ IsFiniteSet(m.nodes)
  BY <1>3, NodesTally, Zenon
<1> QED
  BY <1>1, <1>2, <1>3, Zenon DEF IsMutation

\* A list that is valid as a whole can be applied one by one.
LEMMA ApplyMutationsIsProper ==
    ASSUME NEW a, NEW mutations, Exact(a), Len(mutations) \in Nat,
           \A i \in 1 .. Len(mutations) : IsMutation(mutations[i])
    PROVE  Proper(a, apply_mutations(a, mutations))
<1> DEFINE n == Len(mutations)
           tally == Tallies(a, mutations)
           result == Results(a, mutations)
<1>0. /\ tally[0] = NothingAdded /\ result[0] = Ok(a)
      /\ \A i \in Nat : i + 1 <= n => /\ i + 1 \in 1 .. n
                                      /\ IsMutation(mutations[i + 1])
                                      /\ tally[i + 1] = Tally(a, tally[i], mutations[i + 1])
                                      /\ result[i + 1] = TryApply(result[i], mutations[i + 1])
  <2>1. ASSUME NEW i \in Nat, i + 1 <= n PROVE i + 1 \in 1 .. n /\ (i + 1) - 1 = i
    BY <2>1
  <2> QED
    BY <2>1, TalliesStep, ResultsStep
<1> HIDE DEF tally, result, n
<1>1. \A i \in Nat : i <= n => IsTally(tally[i])
  <2> DEFINE A == {i \in Nat : i <= n => IsTally(tally[i])}
  <2>1. 0 \in A
    BY <1>0, NothingTallied
  <2>2. ASSUME NEW i \in Nat, i \in A PROVE i + 1 \in A
    <3>1. SUFFICES ASSUME i + 1 <= n PROVE IsTally(tally[i + 1])
      OBVIOUS
    <3>2. IsTally(tally[i])
      BY <2>2, <3>1 DEF n
    <3> QED
      BY <1>0, <3>1, <3>2, TallyGrows
  <2> HIDE DEF A
  <2>3. Nat \subseteq A
    BY <2>1, <2>2, NatSetInduction
  <2> QED
    BY <2>3 DEF A
<1>2. \A i \in Nat : i + 1 <= n => /\ tally[i + 1].ok => tally[i].ok
                                   /\ tally[i].added <= tally[i + 1].added
                                   /\ tally[i].added \in Nat /\ tally[i + 1].added \in Nat
  <2> SUFFICES ASSUME NEW i \in Nat, i + 1 <= n
               PROVE  /\ tally[i + 1].ok => tally[i].ok
                      /\ tally[i].added <= tally[i + 1].added
                      /\ tally[i].added \in Nat /\ tally[i + 1].added \in Nat
    OBVIOUS
  <2>1. IsTally(tally[i]) /\ IsTally(tally[i + 1])
    BY <1>1 DEF n
  <2>2. tally[i + 1].added >= tally[i].added /\ (tally[i + 1].ok => tally[i].ok)
    BY <1>0, <2>1, TallyGrows
  <2> QED
    BY <2>1, <2>2 DEF IsTally
<1>3. \A i \in Nat : i <= n => (tally[n].ok => tally[i].ok) /\ tally[i].added <= tally[n].added
  <2> DEFINE A == {j \in Nat : j <= n => /\ tally[n].ok => tally[n - j].ok
                                         /\ tally[n - j].added <= tally[n].added}
  <2>0. n \in Nat /\ tally[n].added \in Nat
    <3>1. n \in Nat /\ n <= n
      BY DEF n
    <3>2. IsTally(tally[n])
      BY <1>1, <3>1
    <3> QED
      BY <3>1, <3>2 DEF IsTally
  <2>1. 0 \in A
    BY <2>0
  <2>2. ASSUME NEW j \in Nat, j \in A PROVE j + 1 \in A
    <3>1. SUFFICES ASSUME j + 1 <= n
                   PROVE  /\ tally[n].ok => tally[n - (j + 1)].ok
                          /\ tally[n - (j + 1)].added <= tally[n].added
      OBVIOUS
    <3> DEFINE i == n - (j + 1)
    <3>2. i \in Nat /\ i + 1 <= n /\ i + 1 = n - j
      BY <2>0, <3>1
    <3>3. (tally[n].ok => tally[i + 1].ok) /\ tally[i + 1].added <= tally[n].added
      BY <2>0, <2>2, <3>1, <3>2
    <3> HIDE DEF i
    <3>4. (tally[n].ok => tally[i].ok) /\ tally[i].added <= tally[n].added
      BY <1>2, <2>0, <3>2, <3>3
    <3> QED
      BY <3>4 DEF i
  <2> HIDE DEF A
  <2>3. Nat \subseteq A
    BY <2>1, <2>2, NatSetInduction
  <2>4. ASSUME NEW i \in Nat, i <= n
        PROVE  (tally[n].ok => tally[i].ok) /\ tally[i].added <= tally[n].added
    <3>1. n - i \in A /\ n - i <= n /\ n - (n - i) = i
      BY <2>0, <2>3, <2>4
    <3> QED
      BY <3>1 DEF A
  <2> QED
    BY <2>4
<1>4. CASE ~validate_mutations(a, mutations)
  BY <1>4, Nothing DEF apply_mutations
<1>5. CASE validate_mutations(a, mutations)
  <2>1. tally[n].ok /\ a.size + tally[n].added <= a.max /\ n \in Nat
    BY <1>5 DEF validate_mutations, check_advice_size_addition, tally, n
  <2> DEFINE A == {i \in Nat : i <= n => result[i].ok /\ Tallied(a, tally[i], result[i].advice)}
  <2>2. 0 \in A
    BY <1>0, NothingTallied DEF Ok
  <2>3. ASSUME NEW i \in Nat, i \in A PROVE i + 1 \in A
    <3>1. SUFFICES ASSUME i + 1 <= n
                   PROVE  result[i + 1].ok /\ Tallied(a, tally[i + 1], result[i + 1].advice)
      OBVIOUS
    <3>2. i <= n /\ result[i].ok /\ Tallied(a, tally[i], result[i].advice)
      BY <2>1, <2>3, <3>1
    <3>3. result[i + 1] = apply_mutation(result[i].advice, mutations[i + 1])
      BY <1>0, <3>1, <3>2 DEF TryApply
    <3>4. tally[i + 1].ok /\ a.size + tally[i + 1].added <= a.max
      <4>1. i + 1 \in Nat /\ n <= n
        BY <2>1
      <4>2. IsTally(tally[i + 1]) /\ IsTally(tally[n])
        BY <1>1, <2>1, <3>1, <4>1
      <4>3. tally[i + 1].ok /\ tally[i + 1].added <= tally[n].added
        BY <1>3, <2>1, <3>1, <4>1
      <4>4. tally[i + 1].added \in Nat /\ tally[n].added \in Nat
        BY <4>2 DEF IsTally
      <4>5. a.size \in Nat /\ a.max \in Nat
        BY ExactTypes
      <4> QED
        BY <2>1, <4>3, <4>4, <4>5
    <3>5. IsTally(tally[i])
      BY <1>1, <3>2
    <3>6. IsMutation(mutations[i + 1]) /\ tally[i + 1] = Tally(a, tally[i], mutations[i + 1])
      BY <1>0, <3>1
    <3> QED
      BY <3>2, <3>3, <3>4, <3>5, <3>6, TallyStep, Zenon
  <2> HIDE DEF A
  <2>4. Nat \subseteq A
    BY <2>2, <2>3, NatSetInduction
  <2>5. result[n].ok /\ Tallied(a, tally[n], result[n].advice)
    BY <2>1, <2>4 DEF A
  <2>6. Keeps(a, result[n].advice)
    BY <2>5 DEF Tallied, Keeps, merge_new
  <2>7. apply_mutations(a, mutations) = result[n]
    BY <1>5 DEF apply_mutations, result, n
  <2> QED
    BY <2>5, <2>6, <2>7 DEF Proper, Tallied
<1> QED
  BY <1>4, <1>5

----------------------------------------------------------------------------
(* The actions                                                             *)

\* A new store holds the root of an empty subtree of each height.
LEMMA NewStore ==
    IsFiniteSet(MerkleStore_new) /\ Cardinality(MerkleStore_new) = EmptyDepth
<1> DEFINE D == 1 .. EmptyDepth
           root == [i \in D |-> EmptyRoot[i]]
           Distinct == {i \in Nat : \A j \in D : i \in D /\ EmptyRoot[i] = EmptyRoot[j] => i = j}
<1>1. 0 \in Distinct
  BY BoundsAssumption
<1>2. ASSUME NEW i \in Nat, i \in Distinct PROVE i + 1 \in Distinct
  <2>1. SUFFICES ASSUME NEW j \in D, i + 1 \in D, EmptyRoot[i + 1] = EmptyRoot[j]
                 PROVE  i + 1 = j
    OBVIOUS
  <2>2. EmptyRoot[i] = EmptyRoot[j - 1]
    <3>1. EmptyRoot[j] = <<EmptyRoot[j - 1], EmptyRoot[j - 1]>>
      BY EmptyRoots
    <3>2. EmptyRoot[i + 1] = <<EmptyRoot[(i + 1) - 1], EmptyRoot[(i + 1) - 1]>> /\ (i + 1) - 1 = i
      BY <2>1, EmptyRoots
    <3> QED
      BY <2>1, <3>1, <3>2
  <2>3. CASE i = 0 \/ j = 1
    <3>1. i \in D => EmptyRoot[i] \in MerkleStore_new
      BY DEF MerkleStore_new
    <3>2. j - 1 \in D => EmptyRoot[j - 1] \in MerkleStore_new
      BY DEF MerkleStore_new
    <3> QED
      BY <2>1, <2>2, <2>3, <3>1, <3>2, EmptyRoots, EmptyLeafAssumption, BoundsAssumption
  <2>4. CASE i # 0 /\ j # 1
    <3>1. i \in D /\ j - 1 \in D
      BY <2>1, <2>4, BoundsAssumption
    <3>2. i = j - 1
      BY <1>2, <2>2, <3>1
    <3> QED
      BY <2>1, <3>2, BoundsAssumption
  <2> QED
    BY <2>3, <2>4
<1>3. Nat \subseteq Distinct
  <2> HIDE DEF Distinct
  <2> QED
    BY <1>1, <1>2, NatSetInduction
<1>4. root \in Injection(D, MerkleStore_new) /\ root \in Surjection(D, MerkleStore_new)
  <2>1. root \in [D -> MerkleStore_new]
    BY DEF MerkleStore_new
  <2>2. \A i, j \in D : root[i] = root[j] => i = j
    BY <1>3, BoundsAssumption
  <2>3. \A node \in MerkleStore_new : \E i \in D : root[i] = node
    BY DEF MerkleStore_new
  <2> QED
    BY <2>1, <2>2, <2>3 DEF Injection, Surjection, IsInjective
<1>5. IsFiniteSet(D) /\ Cardinality(D) = EmptyDepth
  BY BoundsAssumption, FS_Interval
<1> HIDE DEF D, root
<1> QED
  BY <1>4, <1>5, FS_Surjection

\* A provider made from inputs that fit is exact.
LEMMA NewIsExact ==
    ASSUME NEW inputs \in Inputs, NEW max \in Limits, new(inputs, max).ok
    PROVE  Exact(new(inputs, max).advice)
<1> DEFINE none == empty(max)
           stack == extend_advice_stack(none, inputs.stack)
           store == extend_merkle_store(stack.advice, inputs.nodes)
           map == extend_map(store.advice, inputs.map)
<1>1. new(inputs, max).advice = map.advice /\ none.size + 0 <= none.max
  BY Zenon DEF new, check_advice_size_addition
<1>2. Exact(none)
  <2>1. /\ none = [x \in Fields |-> none[x]] /\ none.stack = 0 /\ none.map = <<>>
        /\ none.store = MerkleStore_new /\ none.nodeCount = EmptyDepth
        /\ none.size = merkle_node_bytes(EmptyDepth) /\ none.max = max
    BY DEF empty, Fields
  <2>2. DOMAIN <<>> = {} /\ <<>> = [k \in {} |-> <<>>[k]]
    OBVIOUS
  <2>3. IsAdviceMap(none.map) /\ none.map = [k \in DOMAIN none.map |-> none.map[k]]
    BY <2>1, <2>2, FS_EmptySet DEF IsAdviceMap
  <2>4. max \in Nat /\ EmptyDepth \in Nat
    BY LimitsAssumption, BoundsAssumption
  <2> HIDE DEF none
  <2>5. IsAdvice(none)
    BY <2>1, <2>3, <2>4, NewStore DEF IsAdvice
  <2>6. total_element_count(none.map) = 0
    <3>1. Places(<<>>) = {}
      BY <2>2 DEF Places
    <3>2. Cardinality(Places(none.map)) = 0 /\ Cardinality(DOMAIN none.map) = 0
      BY <2>1, <2>2, <3>1, FS_EmptySet, Zenon
    <3> QED
      BY <3>2 DEF total_element_count, WORD_SIZE
  <2>7. none.size = compute_advice_size_bytes(none)
    BY <2>1, <2>4, <2>6
    DEF compute_advice_size_bytes, felt_bytes, merkle_node_bytes,
        FELT_SIZE_BYTES, WORD_SIZE, INTERNAL_NODE_SIZE_BYTES
  <2>8. none.size <= none.max
    BY <1>1, <2>1, <2>4 DEF merkle_node_bytes, FELT_SIZE_BYTES, WORD_SIZE, INTERNAL_NODE_SIZE_BYTES
  <2> QED
    BY <2>1, <2>5, <2>7, <2>8, NewStore DEF Exact
<1>3. inputs.stack \in Nat /\ IsAdviceMap(inputs.map) /\ IsFiniteSet(inputs.nodes)
  BY InputsAssumption
<1> HIDE DEF none
<1>4. Exact(stack.advice)
  BY <1>2, <1>3, ExtendStackIsProper DEF Proper
<1> HIDE DEF stack
<1>5. Exact(store.advice)
  BY <1>3, <1>4, AddNodesIsProper DEF Proper, extend_merkle_store
<1> HIDE DEF store
<1> QED
  BY <1>1, <1>3, <1>5, ExtendMapIsProper DEF Proper

\* Changing the limit recounts.
LEMMA SetOptionsIsProper ==
    ASSUME NEW a, NEW max \in Nat, Exact(a)
    PROVE  Proper(a, set_options(a, max))
<1> DEFINE size == compute_advice_size_bytes(a)
           b == [a EXCEPT !.size = size, !.max = max]
<1>1. CASE ~(size <= max)
  BY <1>1, Nothing DEF set_options
<1>2. CASE size <= max
  <2>1. set_options(a, max) = Ok(b)
    BY <1>2 DEF set_options
  <2>2. /\ b = [x \in Fields |-> b[x]] /\ b.stack = a.stack /\ b.map = a.map
        /\ b.store = a.store /\ b.nodeCount = a.nodeCount /\ b.size = size /\ b.max = max
    BY Zenon DEF Exact, IsAdvice, Fields
  <2> HIDE DEF b
  <2>3. b.size = compute_advice_size_bytes(b)
    BY <2>2 DEF compute_advice_size_bytes
  <2>4. IsAdvice(b)
    BY <2>2 DEF Exact, IsAdvice
  <2> HIDE DEF size
  <2> QED
    BY <1>2, <2>1, <2>2, <2>3, <2>4 DEF Proper, Exact, Keeps, Ok
<1> QED
  BY <1>1, <1>2

\* Moving the values of a key to the stack.
LEMMA PushFromMapIsProper ==
    ASSUME NEW a, NEW key, NEW include_len \in BOOLEAN, NEW pad_to \in {0, 4, 8}, Exact(a)
    PROVE  Proper(a, push_from_map(a, key, include_len, pad_to))
<1>1. CASE key \notin DOMAIN a.map
  BY <1>1, Nothing DEF push_from_map
<1>2. CASE key \in DOMAIN a.map
  <2> DEFINE len == Len(a.map[key])
             padded == IF pad_to = 0 THEN len ELSE next_multiple_of(len, pad_to)
             count == padded + IF include_len THEN 1 ELSE 0
  <2>1. len \in Nat
    BY <1>2 DEF Exact, IsAdvice, IsAdviceMap
  <2> HIDE DEF len
  <2>2. padded \in Nat
    BY <2>1 DEF next_multiple_of
  <2> HIDE DEF padded
  <2>3. count \in Nat
    BY <2>2
  <2>4. push_from_map(a, key, include_len, pad_to) = extend_advice_stack(a, count)
    BY <1>2 DEF push_from_map, padded, len
  <2> HIDE DEF count
  <2> QED
    BY <2>3, <2>4, ExtendStackIsProper
<1> QED
  BY <1>1, <1>2

\* Replacing a node.
LEMMA UpdateMerkleNodeIsProper ==
    ASSUME NEW a, NEW root, NEW depth \in Nat, NEW index, NEW value, Exact(a)
    PROVE  Proper(a, update_merkle_node(a, root, depth, index, value))
<1> DEFINE hash == Descent(a.store, root, depth, index)
           nodes == authenticated_nodes(hash, depth, index, value)
           all == {nodes[level] : level \in 0 .. depth - 1}
           result == update_merkle_node(a, root, depth, index, value)
<1>1. IsFiniteSet(all)
  <2>1. DOMAIN nodes = 0 .. depth - 1
    BY DEF authenticated_nodes
  <2> HIDE DEF nodes
  <2>2. IsFiniteSet(0 .. depth - 1)
    BY FS_Interval
  <2> QED
    BY <2>1, <2>2, FiniteImage
<1>2. \E called \in {Ok(a), Err(a), AddNodes(a, all)} :
        result.ok = called.ok /\ result.advice = called.advice
  BY Zenon DEF update_merkle_node, Ok, Err
<1> HIDE DEF result, all
<1>3. PICK called \in {Ok(a), Err(a), AddNodes(a, all)} :
        result.ok = called.ok /\ result.advice = called.advice
  BY <1>2
<1>4. Proper(a, called)
  BY <1>1, Nothing, AddNodesIsProper
<1>5. Proper(a, result)
  BY <1>3, <1>4 DEF Proper
<1> QED
  BY <1>5 DEF result

\* A list with the inputs is one of mutations.
LEMMA ExtendFromInputsIsProper ==
    ASSUME NEW a, NEW inputs \in Inputs, Exact(a)
    PROVE  Proper(a, extend_from_inputs(a, inputs))
<1> DEFINE list == <<[kind |-> "ExtendStack", stack |-> inputs.stack],
                     [kind |-> "ExtendMerkleStore", nodes |-> inputs.nodes],
                     [kind |-> "ExtendMap", map |-> inputs.map]>>
<1>1. Len(list) = 3 /\ 1 .. 3 = {1, 2, 3}
  OBVIOUS
<1>2. IsMutation(list[1]) /\ IsMutation(list[2]) /\ IsMutation(list[3])
  BY InputsAssumption DEF IsMutation
<1>3. extend_from_inputs(a, inputs) = apply_mutations(a, list)
  BY DEF extend_from_inputs
<1> HIDE DEF list
<1>4. Len(list) \in Nat /\ \A i \in 1 .. Len(list) : IsMutation(list[i])
  BY <1>1, <1>2
<1> QED
  BY <1>3, <1>4, ApplyMutationsIsProper

\* Every step is a proper call.
LEMMA StepIsProper ==
    ASSUME Exact(advice), Next
    PROVE  \E result : /\ Proper(advice, result)
                       /\ advice' = result.advice /\ (outcome'.ok <=> result.ok)
<1>0. ASSUME NEW result, Proper(advice, result), Return(result)
      PROVE  \E r : Proper(advice, r) /\ advice' = r.advice /\ (outcome'.ok <=> r.ok)
  <2>1. advice' = result.advice /\ (outcome'.ok <=> result.ok)
    BY <1>0 DEF Return
  <2> QED
    BY <1>0, <2>1
<1>1. CASE SetOptions
  BY <1>0, <1>1, SetOptionsIsProper, LimitsAssumption DEF SetOptions
<1>2. CASE ApplyMutations
  <2>0. PICK n \in 0 .. MaxMutations :
          \E mutations \in [1 .. n -> Mutations] : Return(apply_mutations(advice, mutations))
    BY <1>2 DEF ApplyMutations
  <2>1. PICK mutations \in [1 .. n -> Mutations] : Return(apply_mutations(advice, mutations))
    BY <2>0
  <2>2. n \in Nat /\ mutations \in Seq(Mutations)
    BY BoundsAssumption
  <2>3. Len(mutations) = n
    BY <2>2
  <2>4. \A i \in 1 .. Len(mutations) : IsMutation(mutations[i])
    BY <2>3, MutationsAssumption
  <2> QED
    BY <1>0, <2>1, <2>2, <2>3, <2>4, ApplyMutationsIsProper
<1>3. CASE ExtendFromInputs
  BY <1>0, <1>3, ExtendFromInputsIsProper DEF ExtendFromInputs
<1>4. CASE PopStack
  <2>1. PICK count \in {1, WORD_SIZE, 2 * WORD_SIZE} : Return(pop_stack(advice, count))
    BY <1>4 DEF PopStack
  <2>2. count \in Nat
    BY DEF WORD_SIZE
  <2> QED
    BY <1>0, <2>1, <2>2, PopStackIsProper
<1>5. CASE PushStack
  <2>1. PICK count \in {1, WORD_SIZE} : Return(extend_advice_stack(advice, count))
    BY <1>5 DEF PushStack
  <2>2. count \in Nat
    BY DEF WORD_SIZE
  <2> QED
    BY <1>0, <2>1, <2>2, ExtendStackIsProper
<1>6. CASE PushFromMap
  BY <1>0, <1>6, PushFromMapIsProper DEF PushFromMap
<1>7. CASE InsertIntoMap
  <2>1. PICK key \in Keys, values \in Values : Return(insert_into_map(advice, key, values))
    BY <1>7 DEF InsertIntoMap
  <2> DEFINE entry == [k \in {key} |-> values]
  <2>2. IsAdviceMap(entry)
    BY FS_Singleton, ValuesAssumption, Zenon DEF IsAdviceMap
  <2>3. insert_into_map(advice, key, values) = extend_map(advice, entry)
    BY DEF insert_into_map
  <2> HIDE DEF entry
  <2> QED
    BY <1>0, <2>1, <2>2, <2>3, ExtendMapIsProper
<1>8. CASE MergeRoots
  <2>1. PICK lhs, rhs : Return(merge_roots(advice, lhs, rhs))
    BY <1>8 DEF MergeRoots
  <2>2. Proper(advice, merge_roots(advice, lhs, rhs))
    BY FS_Singleton, AddNodesIsProper, Zenon DEF merge_roots
  <2> QED
    BY <1>0, <2>1, <2>2
<1>9. CASE UpdateMerkleNode
  <2>1. PICK depth \in 0 .. MaxDepth : \E root, value, index :
          LET result == update_merkle_node(advice, root, depth, index, value)
          IN  advice' = result.advice /\ (outcome'.ok <=> result.ok)
    BY <1>9 DEF UpdateMerkleNode
  <2>2. PICK root, value, index :
          LET result == update_merkle_node(advice, root, depth, index, value)
          IN  advice' = result.advice /\ (outcome'.ok <=> result.ok)
    BY <2>1
  <2> DEFINE result == update_merkle_node(advice, root, depth, index, value)
  <2>3. depth \in Nat
    BY BoundsAssumption
  <2>4. Proper(advice, result)
    BY <2>3, UpdateMerkleNodeIsProper
  <2> HIDE DEF result
  <2>5. advice' = result.advice /\ (outcome'.ok <=> result.ok)
    BY <2>2 DEF result
  <2> QED
    BY <2>4, <2>5
<1> QED
  BY <1>1, <1>2, <1>3, <1>4, <1>5, <1>6, <1>7, <1>8, <1>9 DEF Next

\* Every step that calls something does what a call may do.
LEMMA ExactStep == Exact(advice) /\ [Next]_vars => Exact(advice)'
<1> SUFFICES ASSUME Exact(advice), [Next]_vars PROVE Exact(advice')
  OBVIOUS
<1>1. CASE Next
  BY <1>1, StepIsProper DEF Proper
<1>2. CASE UNCHANGED vars
  BY <1>2 DEF vars
<1> QED
  BY <1>1, <1>2

\* The provider is exact whatever is called.
LEMMA ExactAlways == Spec => []Exact(advice)
<1>1. Init => Exact(advice)
  BY NewIsExact DEF Init
<1> QED
  BY <1>1, ExactStep, PTL DEF Spec

\* The running totals agree with a recount and stay within the limit.
THEOREM BudgetHoldsAlways == Spec => []BudgetHolds
<1>1. Exact(advice) => BudgetHolds
  BY DEF Exact, BudgetHolds
<1> QED
  BY <1>1, ExactAlways, PTL

\* A call that fails changes nothing; a list of mutations is applied as a whole
\* or not at all.
THEOREM FailedCallsChangeNothingHolds == Spec => FailedCallsChangeNothing
<1>1. Exact(advice) /\ [Next]_vars => [~outcome'.ok => advice' = advice]_vars
  BY StepIsProper DEF Proper
<1> QED
  BY <1>1, ExactAlways, PTL DEF Spec, FailedCallsChangeNothing

\* No key changes its value and no node is forgotten.
THEOREM EntriesAreKeptHolds == Spec => EntriesAreKept
<1>1. Exact(advice) /\ [Next]_vars =>
        [/\ advice.store \subseteq advice'.store
         /\ \A k \in DOMAIN advice.map :
              k \in DOMAIN advice'.map /\ advice'.map[k] = advice.map[k]]_vars
  BY StepIsProper DEF Proper, Keeps
<1> QED
  BY <1>1, ExactAlways, PTL DEF Spec, EntriesAreKept

\* An update makes a tree with the new value at its position and the old values at
\* every other position of that depth.
THEOREM UpdateReplacesOneNodeHolds == Spec => []UpdateReplacesOneNode
<1>1. Init => UpdateReplacesOneNode
  BY DEF Init, UpdateReplacesOneNode
<1>2. UpdateReplacesOneNode /\ [Next]_vars => UpdateReplacesOneNode'
  <2> SUFFICES ASSUME UpdateReplacesOneNode, [Next]_vars
               PROVE  UpdateReplacesOneNode'
    OBVIOUS
  <2>1. CASE outcome'.call # "update"
    BY <2>1 DEF UpdateReplacesOneNode
  <2>2. CASE UNCHANGED vars
    <3>1. advice' = advice /\ outcome' = outcome
      BY <2>2 DEF vars
    <3> QED
      BY <3>1, Zenon DEF UpdateReplacesOneNode
  <2>3. ASSUME Next, outcome'.call = "update" PROVE UpdateMerkleNode
    <3>1. ASSUME NEW result, Return(result) PROVE FALSE
      BY <2>3, <3>1 DEF Return
    <3>2. ~SetOptions /\ ~ApplyMutations /\ ~ExtendFromInputs /\ ~PopStack
      BY <3>1, Zenon DEF SetOptions, ApplyMutations, ExtendFromInputs, PopStack
    <3>3. ~PushStack /\ ~PushFromMap /\ ~InsertIntoMap /\ ~MergeRoots
      BY <3>1, Zenon DEF PushStack, PushFromMap, InsertIntoMap, MergeRoots
    <3> QED
      BY <2>3, <3>2, <3>3 DEF Next
  <2>4. ASSUME Next, outcome'.call = "update" PROVE UpdateReplacesOneNode'
    <3>1. PICK root \in Leaves \cup advice.store, depth \in 0 .. MaxDepth,
               index \in 0 .. MaxPosition, value \in Leaves :
            LET result == update_merkle_node(advice, root, depth, index, value)
            IN  /\ advice' = result.advice
                /\ outcome' = IF ~result.ok THEN [call |-> "other", ok |-> FALSE]
                              ELSE [call |-> "update", ok |-> TRUE, root |-> root,
                                    depth |-> depth, index |-> index, value |-> value,
                                    newRoot |-> result.root]
      BY <2>3, <2>4 DEF UpdateMerkleNode
    <3> DEFINE result == update_merkle_node(advice, root, depth, index, value)
               hash == Descent(advice.store, root, depth, index)
               nodes == authenticated_nodes(hash, depth, index, value)
               store == advice'.store
    <3>2. depth \in Nat /\ depth <= MaxDepth /\ index \in Nat
      BY BoundsAssumption
    <3>3. result.ok
      BY <2>4, <3>1
    <3>4. /\ advice' = result.advice /\ outcome'.root = root /\ outcome'.depth = depth
          /\ outcome'.index = index /\ outcome'.value = value /\ outcome'.newRoot = result.root
      BY <3>1, <3>3
    <3>5. ASSUME 0 < depth
          PROVE  /\ NodeIndex_new(depth, index) /\ has_path(advice.store, root, depth, index)
                 /\ \/ hash[depth] = value /\ result.advice = advice /\ result.root = root
                    \/ /\ result.advice.store =
                            advice.store \cup {nodes[level] : level \in 0 .. depth - 1}
                       /\ result.root = nodes[0]
      <4> HIDE DEF result
      <4>1. result = update_merkle_node(advice, root, depth, index, value)
        BY DEF result
      <4>2. Updated(advice, root, depth, index, value, result)
        BY <3>2, <3>3, <3>5, <4>1, UpdateDoes
      <4> QED
        BY <4>2, Zenon DEF Updated
    <3>6. ASSUME 0 < depth, NEW i \in 0 .. MaxPosition, NodeIndex_new(depth, i),
                 has_path(store, root, depth, i)
          PROVE  /\ has_path(store, result.root, depth, i)
                 /\ get_node(store, result.root, depth, i) =
                      IF i = index THEN value ELSE get_node(store, root, depth, i)
      <4>1. i \in Nat
        BY BoundsAssumption
      <4>2. CASE hash[depth] = value /\ result.advice = advice /\ result.root = root
        BY <3>4, <3>6, <4>2, Zenon DEF get_node
      <4>3. CASE /\ result.advice.store =
                      advice.store \cup {nodes[level] : level \in 0 .. depth - 1}
                 /\ result.root = nodes[0]
        <5>1. Extended(advice.store, root, depth, index, value, nodes, store)
          BY <3>4, <3>5, <3>6, <4>3, Zenon DEF Extended
        <5> HIDE DEF store, nodes, hash, result
        <5>2. /\ has_path(store, nodes[0], depth, i)
              /\ get_node(store, nodes[0], depth, i) =
                   IF i = index THEN value ELSE get_node(store, root, depth, i)
          BY <3>2, <3>6, <4>1, <5>1, UpdatedTree
        <5> QED
          BY <4>3, <5>2
      <4> QED
        BY <3>5, <3>6, <4>2, <4>3, Zenon
    <3> HIDE DEF result, hash, nodes
    <3>7. outcome'.depth > 0 => 0 < depth
      BY <3>2, <3>4
    <3> QED
      BY <3>4, <3>6, <3>7, Zenon DEF UpdateReplacesOneNode
  <2> QED
    BY <2>1, <2>2, <2>4
<1> QED
  BY <1>1, <1>2, PTL DEF Spec
=============================================================================
