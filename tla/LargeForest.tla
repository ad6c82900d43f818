---------------------------- MODULE LargeForest ----------------------------
(***************************************************************************)
(* The forest of sparse Merkle trees of crates/crypto (smt/large_forest).  *)
(* A backend holds the latest tree of every lineage; the past of a lineage *)
(* is a queue of deltas, each of which turns the latest tree into an       *)
(* earlier one.  Changes are prepared against the forest and applied later.*)
(* Hashing is symbolic: the hash of a node is the entries below it.        *)
(***************************************************************************)
EXTENDS Integers, Sequences, FiniteSets

CONSTANTS
    Lineages,
    Keys, Values, EmptyWord,
    Depth,        \* SMT_DEPTH (64 in the code)
    Leaf,         \* LeafIndex: the position of a key's leaf
    Versions,
    MaxVersions,  \* max_history_versions
    Batches,      \* update batches: lineage |-> sequence of operations <<key, word>>
    MaxPrepared   \* bound: mutation sets prepared and not yet applied

ASSUME ForestAssumption ==
    /\ Versions \subseteq Nat
    /\ MaxVersions \in Nat \ {0}
    /\ Depth \in Nat
    /\ \A batch \in Batches :
        DOMAIN batch \subseteq Lineages /\ batch \in [DOMAIN batch -> Seq(Keys \X (Values \cup {EmptyWord}))]

VARIABLES
    backend,             \* lineage |-> [version, tree]
    lineage_data,        \* lineage |-> [history, latest_version, latest_root]
    non_empty_histories, \* lineages whose history truncation looks at
    prepared,            \* mutation sets that callers hold
    panicked             \* an expectation of apply_mutations failed

vars == <<backend, lineage_data, non_empty_histories, prepared, panicked>>

Words == Values \cup {EmptyWord}
Trees == [Keys -> Words]
EmptyTree == [k \in Keys |-> EmptyWord]

\* Nodes are pairs of a depth and a position; the leaves are at Depth.
Position(k, d) == Leaf[k] \div 2 ^ (Depth - d)
Under(n) == {k \in Keys : Position(k, n[1]) = n[2]}
Sibling(n) == <<n[1], IF n[2] % 2 = 0 THEN n[2] + 1 ELSE n[2] - 1>>

\* The entries of a tree among some keys, which stand for the hash of a node when
\* the keys are those below it.
Entries(tree, keys) == [k \in {j \in keys : tree[j] # EmptyWord} |-> tree[k]]
NodeValue(tree, n) == Entries(tree, Under(n))
Root(tree) == Entries(tree, Keys)
num_entries(tree) == Cardinality({k \in Keys : tree[k] # EmptyWord})

\* A tree with some of its values replaced.
Overlay(tree, pairs) == [k \in Keys |-> IF k \in DOMAIN pairs THEN pairs[k] ELSE tree[k]]

----------------------------------------------------------------------------
(* History: the deltas of a lineage, the oldest first                      *)

\* Mutant: a later change of a key replaces an earlier one.
or_insert_over(map, new) ==
    [k \in DOMAIN map \cup DOMAIN new |-> IF k \in DOMAIN new THEN new[k] ELSE map[k]]

or_insert(map, new) ==
    [k \in DOMAIN map \cup DOMAIN new |-> IF k \in DOMAIN map THEN map[k] ELSE new[k]]

Extended(delta, new) ==
    [root |-> delta.root, version_id |-> delta.version_id, entry_count |-> delta.entry_count,
     nodes |-> or_insert(delta.nodes, new.nodes),
     changed_keys |-> or_insert(delta.changed_keys, new.changed_keys)]

NonMonotonic(history, version_id) ==
    history # <<>> /\ history[Len(history)].version_id >= version_id

add_version(history, new) ==
    LET kept == IF Len(history) >= MaxVersions THEN Tail(history) ELSE history
    IN  Append([i \in DOMAIN kept |-> Extended(kept[i], new)], new)

\* The number of the newest delta for a version; 0 if the version is too old for the history.
find_latest_corresponding_version(history, version_id) ==
    LET newer == {i \in DOMAIN history : history[i].version_id > version_id}
        first == CHOOSE i \in newer : \A j \in newer : i <= j
    IN  IF newer = {} THEN Len(history) ELSE first - 1

\* Mutant: the delta for the version goes too.
truncate_history_at(history, version_id) ==
    SubSeq(history, find_latest_corresponding_version(history, version_id) + 1, Len(history))

truncate_history(history, version_id) ==
    LET ix == find_latest_corresponding_version(history, version_id)
    IN  IF ix = 0 THEN history ELSE SubSeq(history, ix, Len(history))

----------------------------------------------------------------------------
(* Mutations: prepared against the backend, validated and applied later    *)

\* The last operation on a key counts.
consume(ops) ==
    [k \in {ops[i][1] : i \in DOMAIN ops} |->
        ops[CHOOSE i \in DOMAIN ops :
                /\ ops[i][1] = k
                /\ \A j \in DOMAIN ops : j > i => ops[j][1] # k][2]]

NoVersion == -1
CurrentTree(l) == IF l \in DOMAIN backend THEN backend[l].tree ELSE EmptyTree

compute_mutation(l, new_version, ops) ==
    LET tree == CurrentTree(l)
        pairs == consume(ops)
        new_pairs == [k \in {j \in DOMAIN pairs : pairs[j] # tree[j]} |-> pairs[k]]
    IN  [kind |-> IF l \in DOMAIN backend THEN "UpdateTree" ELSE "AddLineage",
         old_version |-> IF l \in DOMAIN backend THEN backend[l].version ELSE NoVersion,
         new_version |-> new_version,
         old_root |-> Root(tree),
         new_root |-> Root(Overlay(tree, new_pairs)),
         new_pairs |-> new_pairs]

compute_mutations(new_version, batch) ==
    [l \in DOMAIN batch |-> compute_mutation(l, new_version, batch[l])]

\* Mutant: only the lineages are checked.
ValidForLineages(mutations) ==
    \A l \in DOMAIN mutations : (l \in DOMAIN backend) = (mutations[l].kind = "UpdateTree")

\* The backend's check that a set was prepared against the trees it has now.
Valid(mutations) ==
    \A l \in DOMAIN mutations :
        LET m == mutations[l]
        IN  IF m.kind = "AddLineage" THEN l \notin DOMAIN backend
            ELSE /\ l \in DOMAIN backend
                 /\ backend[l].version = m.old_version
                 /\ Root(backend[l].tree) = m.old_root

apply_to_backend(mutations) ==
    [l \in DOMAIN backend \cup DOMAIN mutations |->
        IF l \notin DOMAIN mutations THEN backend[l]
        ELSE [version |-> IF l \in DOMAIN backend /\ DOMAIN mutations[l].new_pairs = {}
                            THEN backend[l].version ELSE mutations[l].new_version,
              tree |-> Overlay(CurrentTree(l), mutations[l].new_pairs)]]

\* The delta that takes a tree back over a mutation: the old values
\* of the changed keys and of the inner nodes above them.
reverse(tree, m) ==
    [root |-> m.old_root, version_id |-> m.old_version, entry_count |-> num_entries(tree),
     nodes |-> [n \in {<<d, Position(k, d)>> : d \in 0 .. Depth - 1, k \in DOMAIN m.new_pairs}
                  |-> NodeValue(tree, n)],
     changed_keys |-> [k \in DOMAIN m.new_pairs |-> tree[k]]]

Changed(mutations) ==
    {l \in DOMAIN mutations :
        mutations[l].kind = "UpdateTree" /\ mutations[l].old_root # mutations[l].new_root}
Added(mutations) == {l \in DOMAIN mutations : mutations[l].kind = "AddLineage"}

Panics(mutations) ==
    \E l \in Changed(mutations) :
        \/ l \notin DOMAIN lineage_data
        \/ NonMonotonic(lineage_data[l].history, mutations[l].old_version)

apply_to_lineages(mutations) ==
    [l \in DOMAIN lineage_data \cup Added(mutations) |->
        IF l \notin Added(mutations) \cup Changed(mutations) THEN lineage_data[l]
        ELSE [history |-> IF l \in Added(mutations) THEN <<>>
                          ELSE add_version(lineage_data[l].history, reverse(backend[l].tree, mutations[l])),
              latest_version |-> mutations[l].new_version,
              latest_root |-> mutations[l].new_root]]

\* Applying a set, which changes nothing if the set is stale.
apply_mutations(mutations) ==
    IF Valid(mutations)
      THEN /\ backend' = apply_to_backend(mutations)
           /\ lineage_data' = IF Panics(mutations) THEN lineage_data ELSE apply_to_lineages(mutations)
           /\ non_empty_histories' = non_empty_histories \cup Changed(mutations)
           /\ panicked' = (panicked \/ Panics(mutations))
      ELSE UNCHANGED <<backend, lineage_data, non_empty_histories, panicked>>

----------------------------------------------------------------------------
Init ==
    /\ backend = <<>>
    /\ lineage_data = <<>>
    /\ non_empty_histories = {}
    /\ prepared = {}
    /\ panicked = FALSE

NewVersion(batch, version) ==
    \A l \in DOMAIN batch \cap DOMAIN lineage_data : lineage_data[l].latest_version < version

\* compute_tree_mutations, compute_forest_mutations: nothing but the result.
ComputeMutations ==
    \E batch \in Batches, version \in Versions :
        /\ Cardinality(prepared) < MaxPrepared
        /\ NewVersion(batch, version)
        /\ prepared' = prepared \cup {compute_mutations(version, batch)}
        /\ UNCHANGED <<backend, lineage_data, non_empty_histories, panicked>>

ApplyMutations ==
    \E mutations \in prepared :
        /\ apply_mutations(mutations)
        /\ prepared' = prepared \ {mutations}

\* A caller drops a set, or the backend fails to write it.
Discard ==
    \E mutations \in prepared :
        /\ prepared' = prepared \ {mutations}
        /\ UNCHANGED <<backend, lineage_data, non_empty_histories, panicked>>

\* add_lineage, add_lineages
AddLineages ==
    \E batch \in Batches, version \in Versions :
        /\ DOMAIN batch \cap DOMAIN lineage_data = {}
        /\ apply_mutations(compute_mutations(version, batch))
        /\ UNCHANGED prepared

\* update_tree, update_forest
UpdateForest ==
    \E batch \in Batches, version \in Versions :
        /\ DOMAIN batch \subseteq DOMAIN lineage_data
        /\ NewVersion(batch, version)
        /\ apply_mutations(compute_mutations(version, batch))
        /\ UNCHANGED prepared

truncate_lineage(data, version) ==
    [history |-> IF version >= data.latest_version THEN <<>>
                 ELSE truncate_history(data.history, version),
     latest_version |-> data.latest_version, latest_root |-> data.latest_root]

Truncate ==
    \E version \in Versions :
        /\ lineage_data' = [l \in DOMAIN lineage_data |->
                IF l \in non_empty_histories THEN truncate_lineage(lineage_data[l], version)
                ELSE lineage_data[l]]
        /\ non_empty_histories' =
                {l \in non_empty_histories : version < lineage_data[l].latest_version}
        /\ UNCHANGED <<backend, prepared, panicked>>

\* The process ends, between any two steps of it, and a new forest is made from the backend.
Restart ==
    /\ lineage_data' = [l \in DOMAIN backend |->
            [history |-> <<>>, latest_version |-> backend[l].version,
             latest_root |-> Root(backend[l].tree)]]
    /\ non_empty_histories' = {}
    /\ prepared' = {}
    /\ panicked' = FALSE
    /\ UNCHANGED backend

Next ==
    \/ ComputeMutations \/ ApplyMutations \/ Discard
    \/ AddLineages \/ UpdateForest \/ Truncate \/ Restart

Spec == Init /\ [][Next]_vars

----------------------------------------------------------------------------
(* Queries at a version that the forest knows                              *)

Served(l, version) ==
    /\ version <= lineage_data[l].latest_version
    /\ \/ version = lineage_data[l].latest_version
       \/ find_latest_corresponding_version(lineage_data[l].history, version) > 0

IsLatest(l, version) == version = lineage_data[l].latest_version
View(l, version) ==
    lineage_data[l].history[find_latest_corresponding_version(lineage_data[l].history, version)]

root_info(l, version) ==
    IF IsLatest(l, version) THEN lineage_data[l].latest_root ELSE View(l, version).root

get(l, version, key) ==
    IF ~IsLatest(l, version) /\ key \in DOMAIN View(l, version).changed_keys
      THEN View(l, version).changed_keys[key] ELSE backend[l].tree[key]

entry_count(l, version) ==
    IF IsLatest(l, version) THEN num_entries(backend[l].tree) ELSE View(l, version).entry_count

\* The entries of the latest tree, with values of the history or skipped, then
\* those that only the history has.
entries_with_history(full, changed) ==
    LET yielded == DOMAIN full \cap DOMAIN changed
        reading_full_tree ==
            {<<k, IF k \in yielded THEN changed[k] ELSE full[k]>> :
                k \in {j \in DOMAIN full : j \in yielded => changed[j] # EmptyWord}}
        reading_history ==
            {<<k, changed[k]>> : k \in {j \in DOMAIN changed \ yielded : changed[j] # EmptyWord}}
    IN  reading_full_tree \cup reading_history

entries(l, version) ==
    LET full == Entries(backend[l].tree, Keys)
    IN  entries_with_history(full, IF IsLatest(l, version) THEN <<>> ELSE View(l, version).changed_keys)

\* The leaf of a key and the siblings of the nodes above it.
Opening(tree, key) ==
    [leaf |-> NodeValue(tree, <<Depth, Leaf[key]>>),
     path |-> [d \in 1 .. Depth |-> NodeValue(tree, Sibling(<<d, Position(key, d)>>))]]

merge_leaves(leaf, changed, leaf_changes) ==
    LET kept == {k \in DOMAIN leaf : k \in DOMAIN changed => changed[k] # EmptyWord}
        added == {k \in DOMAIN leaf_changes : leaf_changes[k] # EmptyWord}
    IN  [k \in kept \cup added |-> IF k \in added THEN leaf_changes[k] ELSE leaf[k]]

ChangesAt(delta, n) == [k \in DOMAIN delta.changed_keys \cap Under(n) |-> delta.changed_keys[k]]

merge_path_node(tree, delta, n) ==
    IF n \in DOMAIN delta.nodes THEN delta.nodes[n]
    ELSE IF n[1] = Depth /\ DOMAIN ChangesAt(delta, n) # {}
      THEN merge_leaves(NodeValue(tree, n), delta.changed_keys, ChangesAt(delta, n))
      ELSE NodeValue(tree, n)

open(l, version, key) ==
    IF IsLatest(l, version) THEN Opening(backend[l].tree, key)
    ELSE LET tree == backend[l].tree
             delta == View(l, version)
             n == <<Depth, Leaf[key]>>
         IN  [leaf |-> merge_leaves(NodeValue(tree, n), delta.changed_keys, ChangesAt(delta, n)),
              path |-> [d \in 1 .. Depth |->
                            merge_path_node(tree, delta, Sibling(<<d, Position(key, d)>>))]]

----------------------------------------------------------------------------
\* The trees that a lineage stands for: each delta applied to the latest tree.
SnapshotsOf(latest, history) ==
    [i \in 1 .. Len(history) + 1 |->
        IF i = Len(history) + 1 THEN latest
        ELSE [version |-> history[i].version_id,
              tree |-> Overlay(latest.tree, history[i].changed_keys)]]
Snapshots(l) == SnapshotsOf(backend[l], lineage_data[l].history)

Abstract == INSTANCE SnapshotForest WITH snapshots <- [l \in DOMAIN lineage_data |-> Snapshots(l)]

\* The forest behaves as if it kept every tree in full: whatever is prepared,
\* applied, evicted, truncated or lost in a restart, the deltas that remain
\* still give, from the latest tree, the trees that were committed.
ImplementsSnapshots == Abstract!Spec

\* Every query at every version answers from the snapshot of that version, and
\* the versions that are answered are exactly those the snapshots cover.
QueriesAreExact ==
    \A l \in DOMAIN lineage_data, version \in Versions :
        LET tree == Abstract!At(Snapshots(l), version)
        IN  /\ Served(l, version) <=> Abstract!Known(Snapshots(l), version)
            /\ Served(l, version) =>
                 /\ root_info(l, version) = Root(tree)
                 /\ entry_count(l, version) = num_entries(tree)
                 /\ entries(l, version) = {<<k, tree[k]>> : k \in DOMAIN Root(tree)}
                 /\ \A key \in Keys :
                      /\ get(l, version, key) = tree[key]
                      /\ open(l, version, key) = Opening(tree, key)

\* What the forest remembers of each lineage agrees with the backend, truncation
\* looks at exactly the lineages that have a history, and applying a set that
\* was prepared against an earlier forest never breaks an expectation.
ForestAgreesWithBackend ==
    /\ ~panicked
    /\ DOMAIN lineage_data = DOMAIN backend
    /\ \A l \in DOMAIN backend :
        /\ lineage_data[l].latest_version = backend[l].version
        /\ lineage_data[l].latest_root = Root(backend[l].tree)
    /\ non_empty_histories = {l \in DOMAIN lineage_data : lineage_data[l].history # <<>>}
=============================================================================
