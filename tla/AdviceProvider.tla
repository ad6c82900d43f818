--------------------------- MODULE AdviceProvider ---------------------------
(***************************************************************************)
(* The advice provider of processor/src/host/advice: an advice stack, an   *)
(* advice map and a Merkle store, whose sizes are charged to one budget.   *)
(* Values on the stack are not told apart; hashing is symbolic: the hash   *)
(* of two words is the pair of them, and a node in the store is that pair. *)
(***************************************************************************)
EXTENDS Integers, Sequences, FiniteSets

CONSTANTS
    Limits,      \* the values max_advice_size_bytes is set to
    Inputs,      \* initial advice: records stack, map, nodes
    Mutations,   \* mutations of event handlers: records kind, stack | map | nodes
    MaxMutations,\* bound: length of a list of mutations
    Keys, Values,\* keys, and sequences of elements, for the map
    Leaves,      \* words that are not hashes
    EmptyLeaf,   \* the empty one of them
    EmptyDepth,  \* bound: height of the empty subtrees in a new store (255 in the code)
    MaxDepth,    \* bound: depths that callers ask for
    MaxPosition  \* bound: positions that callers ask for

\* A map from words to sequences of elements, and what a mutation may be.
IsAdviceMap(map) ==
    /\ IsFiniteSet(DOMAIN map)
    /\ \A k \in DOMAIN map : Len(map[k]) \in Nat
IsMutation(m) ==
    \/ m.kind = "ExtendStack" /\ m.stack \in Nat
    \/ m.kind = "ExtendMap" /\ IsAdviceMap(m.map)
    \/ m.kind = "ExtendMerkleStore" /\ IsFiniteSet(m.nodes)

ASSUME LimitsAssumption == Limits \subseteq Nat
ASSUME InputsAssumption ==
    \A i \in Inputs : i.stack \in Nat /\ IsAdviceMap(i.map) /\ IsFiniteSet(i.nodes)
ASSUME MutationsAssumption == \A m \in Mutations : IsMutation(m)
ASSUME ValuesAssumption == \A values \in Values : Len(values) \in Nat
ASSUME BoundsAssumption ==
    MaxMutations \in Nat /\ EmptyDepth \in Nat /\ MaxDepth \in Nat /\ MaxPosition \in Nat

VARIABLES
    advice,      \* stack (its length), map, store, nodeCount, size, max
    outcome      \* whether the last call succeeded; what an update was asked and returned

vars == <<advice, outcome>>

FELT_SIZE_BYTES == 8
WORD_SIZE == 4
INTERNAL_NODE_SIZE_BYTES == 3 * WORD_SIZE * FELT_SIZE_BYTES

felt_bytes(count) == count * FELT_SIZE_BYTES
merkle_node_bytes(count) == count * INTERNAL_NODE_SIZE_BYTES

\* The places of the elements in the values of a map.
Places(map) == UNION {{<<k, i>> : i \in 1 .. Len(map[k])} : k \in DOMAIN map}

\* The elements of a map: one per place, and a word per key.
total_element_count(map) == Cardinality(Places(map)) + WORD_SIZE * Cardinality(DOMAIN map)

\* The bytes of all entries together, each charged its values and its key.
map_entry_bytes(entries) ==
    felt_bytes(Cardinality(Places(entries)))
        + Cardinality(DOMAIN entries) * (WORD_SIZE * FELT_SIZE_BYTES)

compute_advice_size_bytes(a) ==
    felt_bytes(a.stack) + felt_bytes(total_element_count(a.map)) + merkle_node_bytes(a.nodeCount)

Ok(a) == [ok |-> TRUE, advice |-> a]
Err(a) == [ok |-> FALSE, advice |-> a]

check_advice_size_addition(a, added) == a.size + added <= a.max

----------------------------------------------------------------------------
(* The Merkle store                                                        *)

\* Roots of the empty subtrees, from the leaf up.
EmptyRoot[height \in 0 .. EmptyDepth] ==
    IF height = 0 THEN EmptyLeaf ELSE <<EmptyRoot[height - 1], EmptyRoot[height - 1]>>
MerkleStore_new == {EmptyRoot[height] : height \in 1 .. EmptyDepth}

\* The empty word is the hash of no empty subtree.
ASSUME EmptyLeafAssumption == EmptyLeaf \notin MerkleStore_new

\* A position, shifted right by every number of bits.
Shifted(position) ==
    LET shifted[n \in 0 .. MaxDepth] == IF n = 0 THEN position ELSE shifted[n - 1] \div 2
    IN  shifted

\* A position has at most as many bits as its depth.
NodeIndex_new(depth, position) == Shifted(position)[depth] = 0

\* Which child the path to (depth, index) takes below the node at a level.
Bit(depth, index, level) == (Shifted(index)[depth - level - 1] % 2) + 1

\* The nodes on the way from a root down to (depth, index); EmptyLeaf stands for
\* whatever lies below a word that is not in the store.
Descent(store, root, depth, index) ==
    LET hash[level \in 0 .. depth] ==
            IF level = 0 THEN root
            ELSE IF hash[level - 1] \in store
              THEN hash[level - 1][Bit(depth, index, level - 1)]
              ELSE EmptyLeaf
    IN  hash

has_path(store, root, depth, index) ==
    LET hash == Descent(store, root, depth, index)
    IN  root \in store /\ \A level \in 0 .. depth - 1 : hash[level] \in store

get_node(store, root, depth, index) == Descent(store, root, depth, index)[depth]

\* Mutant: the value is taken for a left child at every level.
authenticated_nodes_left(hash, depth, index, value) ==
    LET sibling(level) == hash[level][3 - Bit(depth, index, level)]
        node[height \in 0 .. depth] ==
            IF height = 0 THEN value ELSE <<node[height - 1], sibling(depth - height)>>
    IN  [level \in 0 .. depth - 1 |-> node[depth - level]]

\* The parent of a value at a level and its sibling.
Parent(hash, depth, index, level, value) ==
    IF Bit(depth, index, level) = 1
      THEN <<value, hash[level][2]>>
      ELSE <<hash[level][1], value>>

\* The nodes above a new value at (depth, index), given the path to the old one.
authenticated_nodes(hash, depth, index, value) ==
    LET node[height \in 0 .. depth] ==
            IF height = 0 THEN value
            ELSE Parent(hash, depth, index, depth - height, node[height - 1])
    IN  [level \in 0 .. depth - 1 |-> node[depth - level]]

\* Mutant: nodes that are there already are counted again.
AddNodesAgain(a, nodes) ==
    LET added == Cardinality(nodes)
    IN  IF check_advice_size_addition(a, merkle_node_bytes(added))
          THEN Ok([a EXCEPT !.store = @ \cup nodes, !.nodeCount = @ + added,
                            !.size = @ + merkle_node_bytes(added)])
          ELSE Err(a)

AddNodes(a, nodes) ==
    LET added == Cardinality(nodes \ a.store)
    IN  IF check_advice_size_addition(a, merkle_node_bytes(added))
          THEN Ok([a EXCEPT !.store = @ \cup nodes, !.nodeCount = @ + added,
                            !.size = @ + merkle_node_bytes(added)])
          ELSE Err(a)

extend_merkle_store(a, nodes) == AddNodes(a, nodes)

merge_roots(a, lhs, rhs) == AddNodes(a, {<<lhs, rhs>>})

\* The new root is the last node added, and the zero word if there is none.
update_merkle_node(a, root, depth, index, value) ==
    LET hash == Descent(a.store, root, depth, index)
        nodes == authenticated_nodes(hash, depth, index, value)
        added == AddNodes(a, {nodes[level] : level \in 0 .. depth - 1})
        Rooted(result, newRoot) == [ok |-> result.ok, advice |-> result.advice, root |-> newRoot]
    IN  IF ~NodeIndex_new(depth, index) \/ ~has_path(a.store, root, depth, index)
          THEN Rooted(Err(a), EmptyLeaf)
        ELSE IF hash[depth] = value THEN Rooted(Ok(a), root)
        ELSE Rooted(added, IF depth > 0 /\ added.ok THEN nodes[0] ELSE EmptyLeaf)

----------------------------------------------------------------------------
(* The stack and the map                                                   *)

pop_stack(a, count) ==
    IF a.stack >= count
      THEN Ok([a EXCEPT !.stack = @ - count, !.size = @ - felt_bytes(count)])
      ELSE Err(a)

extend_advice_stack(a, count) ==
    IF check_advice_size_addition(a, felt_bytes(count))
      THEN Ok([a EXCEPT !.stack = @ + count, !.size = @ + felt_bytes(count)])
      ELSE Err(a)

next_multiple_of(n, m) == ((n + m - 1) \div m) * m

push_from_map(a, key, include_len, pad_to) ==
    IF key \notin DOMAIN a.map THEN Err(a)
    ELSE LET len == Len(a.map[key])
             padded == IF pad_to = 0 THEN len ELSE next_multiple_of(len, pad_to)
         IN  extend_advice_stack(a, padded + IF include_len THEN 1 ELSE 0)

Conflict(map, other) == \E k \in DOMAIN map \cap DOMAIN other : map[k] # other[k]
NewEntries(map, other) == [k \in DOMAIN other \ DOMAIN map |-> other[k]]
merge_new(map, other) ==
    [k \in DOMAIN map \cup DOMAIN other |-> IF k \in DOMAIN map THEN map[k] ELSE other[k]]

\* Mutant: a later value replaces an earlier one.
extend_map_overwrite(a, other) ==
    LET added == map_entry_bytes(NewEntries(a.map, other))
    IN  IF check_advice_size_addition(a, added)
          THEN Ok([a EXCEPT !.map = merge_new(other, @), !.size = @ + added])
          ELSE Err(a)

extend_map(a, other) ==
    LET added == map_entry_bytes(NewEntries(a.map, other))
    IN  IF ~Conflict(a.map, other) /\ check_advice_size_addition(a, added)
          THEN Ok([a EXCEPT !.map = merge_new(@, other), !.size = @ + added])
          ELSE Err(a)

insert_into_map(a, key, values) == extend_map(a, [k \in {key} |-> values])

----------------------------------------------------------------------------
(* Lists of mutations                                                      *)

apply_mutation(a, m) ==
    CASE m.kind = "ExtendStack" -> extend_advice_stack(a, m.stack)
      [] m.kind = "ExtendMap" -> extend_map(a, m.map)
      [] m.kind = "ExtendMerkleStore" -> extend_merkle_store(a, m.nodes)

\* Mutant: entries are compared with the provider's only.
TallyForgetful(a, acc, m) ==
    CASE m.kind = "ExtendStack" -> [acc EXCEPT !.added = @ + felt_bytes(m.stack)]
      [] m.kind = "ExtendMap" -> [acc EXCEPT !.ok = @ /\ ~Conflict(a.map, m.map),
                                             !.added = @ + map_entry_bytes(NewEntries(a.map, m.map))]
      [] m.kind = "ExtendMerkleStore" ->
            [acc EXCEPT !.added = @ + merkle_node_bytes(Cardinality(m.nodes \ a.store))]

\* What a list adds, counting an entry or a node once however often it occurs.
Tally(a, acc, m) ==
    CASE m.kind = "ExtendStack" -> [acc EXCEPT !.added = @ + felt_bytes(m.stack)]
      [] m.kind = "ExtendMap" ->
            LET known == merge_new(a.map, acc.map)
            IN  [acc EXCEPT !.ok = @ /\ ~Conflict(known, m.map),
                            !.added = @ + map_entry_bytes(NewEntries(known, m.map)),
                            !.map = merge_new(@, m.map)]
      [] m.kind = "ExtendMerkleStore" ->
            LET new == m.nodes \ (a.store \cup acc.nodes)
            IN  [acc EXCEPT !.added = @ + merkle_node_bytes(Cardinality(new)),
                            !.nodes = @ \cup new]

NothingAdded == [ok |-> TRUE, added |-> 0, map |-> <<>>, nodes |-> {}]

\* The tally after each mutation of a list.
Tallies(a, mutations) ==
    LET tally[i \in 0 .. Len(mutations)] ==
            IF i = 0 THEN NothingAdded ELSE Tally(a, tally[i - 1], mutations[i])
    IN  tally

validate_mutations(a, mutations) ==
    LET acc == Tallies(a, mutations)[Len(mutations)]
    IN  acc.ok /\ check_advice_size_addition(a, acc.added)

\* The next mutation is applied unless one has failed.
TryApply(result, m) == IF result.ok THEN apply_mutation(result.advice, m) ELSE result

\* The result after each mutation of a list.
Results(a, mutations) ==
    LET result[i \in 0 .. Len(mutations)] ==
            IF i = 0 THEN Ok(a) ELSE TryApply(result[i - 1], mutations[i])
    IN  result

apply_mutations(a, mutations) ==
    IF validate_mutations(a, mutations) THEN Results(a, mutations)[Len(mutations)] ELSE Err(a)

extend_from_inputs(a, inputs) ==
    apply_mutations(a, <<[kind |-> "ExtendStack", stack |-> inputs.stack],
                         [kind |-> "ExtendMerkleStore", nodes |-> inputs.nodes],
                         [kind |-> "ExtendMap", map |-> inputs.map]>>)

----------------------------------------------------------------------------
set_options(a, max) ==
    LET size == compute_advice_size_bytes(a)
    IN  IF size <= max THEN Ok([a EXCEPT !.size = size, !.max = max]) ELSE Err(a)

empty(max) ==
    [stack |-> 0, map |-> <<>>, store |-> MerkleStore_new, nodeCount |-> EmptyDepth,
     size |-> merkle_node_bytes(EmptyDepth), max |-> max]

\* The provider made from the inputs, if they fit.
new(inputs, max) ==
    LET none == empty(max)
        stack == extend_advice_stack(none, inputs.stack)
        store == extend_merkle_store(stack.advice, inputs.nodes)
        map == extend_map(store.advice, inputs.map)
    IN  [ok |-> check_advice_size_addition(none, 0) /\ stack.ok /\ store.ok /\ map.ok,
         advice |-> map.advice]

Init ==
    /\ \E inputs \in Inputs, max \in Limits :
        new(inputs, max).ok /\ advice = new(inputs, max).advice
    /\ outcome = [call |-> "other", ok |-> TRUE]

Return(result) ==
    /\ advice' = result.advice
    /\ outcome' = [call |-> "other", ok |-> result.ok]

SetOptions == \E max \in Limits : Return(set_options(advice, max))

ApplyMutations ==
    \E n \in 0 .. MaxMutations :
      \E mutations \in [1 .. n -> Mutations] : Return(apply_mutations(advice, mutations))

ExtendFromInputs == \E inputs \in Inputs : Return(extend_from_inputs(advice, inputs))

PopStack == \E count \in {1, WORD_SIZE, 2 * WORD_SIZE} : Return(pop_stack(advice, count))

PushStack == \E count \in {1, WORD_SIZE} : Return(extend_advice_stack(advice, count))

PushFromMap ==
    \E key \in Keys, include_len \in BOOLEAN, pad_to \in {0, 4, 8} :
        Return(push_from_map(advice, key, include_len, pad_to))

InsertIntoMap ==
    \E key \in Keys, values \in Values :
        Return(insert_into_map(advice, key, values))

MergeRoots ==
    \E lhs, rhs \in Leaves \cup advice.store : Return(merge_roots(advice, lhs, rhs))

UpdateMerkleNode ==
    \E root \in Leaves \cup advice.store, depth \in 0 .. MaxDepth, index \in 0 .. MaxPosition,
       value \in Leaves :
        LET result == update_merkle_node(advice, root, depth, index, value)
        IN  /\ advice' = result.advice
            /\ outcome' = IF ~result.ok THEN [call |-> "other", ok |-> FALSE]
                          ELSE [call |-> "update", ok |-> TRUE, root |-> root, depth |-> depth,
                                index |-> index, value |-> value, newRoot |-> result.root]

Next ==
    \/ SetOptions \/ ApplyMutations \/ ExtendFromInputs
    \/ PopStack \/ PushStack \/ PushFromMap \/ InsertIntoMap \/ MergeRoots \/ UpdateMerkleNode

Spec == Init /\ [][Next]_vars

----------------------------------------------------------------------------
\* The running totals are what a recount of the stack, the map and the store
\* gives, and never exceed the limit: no path that adds, skips a duplicate,
\* pops, fails or changes the limit lets the two drift apart.
BudgetHolds ==
    /\ advice.nodeCount = Cardinality(advice.store)
    /\ advice.size = compute_advice_size_bytes(advice)
    /\ advice.size <= advice.max

\* A call that fails leaves the provider as it was.  For a list of mutations this
\* means that whatever passes validation as a whole can be applied one by one.
FailedCallsChangeNothing == [][~outcome'.ok => advice' = advice]_vars

\* A key keeps its first value and a known tree stays known.
EntriesAreKept ==
    [][/\ advice.store \subseteq advice'.store
       /\ \A k \in DOMAIN advice.map : k \in DOMAIN advice'.map /\ advice'.map[k] = advice.map[k]]_vars

\* Updating a node makes a tree that has the new value there and the old values
\* everywhere else at that depth.  (At depth zero there is no node but the root,
\* and the root that the code returns is none.)
UpdateReplacesOneNode ==
    outcome.call = "update" /\ outcome.depth > 0 =>
        \A i \in 0 .. MaxPosition :
            LET before == get_node(advice.store, outcome.root, outcome.depth, i)
            IN  NodeIndex_new(outcome.depth, i) /\ has_path(advice.store, outcome.root, outcome.depth, i) =>
                  /\ has_path(advice.store, outcome.newRoot, outcome.depth, i)
                  /\ get_node(advice.store, outcome.newRoot, outcome.depth, i) =
                        IF i = outcome.index THEN outcome.value ELSE before
=============================================================================
