------------------------- MODULE LargeForestProofs -------------------------
(***************************************************************************)
(* Proofs about the forest with history, for any number of lineages, keys, *)
(* versions and kept deltas: what it remembers agrees with the backend,    *)
(* queries at every version are exact, and it implements the forest that   *)
(* keeps whole trees.                                                      *)
(***************************************************************************)
EXTENDS LargeForest, TLAPS, WellFoundedInduction

----------------------------------------------------------------------------
(* The inductive invariant                                                 *)

Pairs == UNION {[S -> Words] : S \in SUBSET Keys}
Hashes == {Entries(t, S) : t \in Trees, S \in SUBSET Keys}
NodeSet == {<<d, Position(k, d)>> : d \in 0 .. Depth - 1, k \in Keys}
Deltas ==
    [root : Hashes, version_id : Versions, entry_count : {num_entries(t) : t \in Trees},
     nodes : UNION {[N -> Hashes] : N \in SUBSET NodeSet}, changed_keys : Pairs]

\* A delta turns a tree into the earlier one whose root, size and inner nodes it
\* holds, and it holds every inner node above a key that it changes.
DeltaExact(tree, delta) ==
    LET old == Overlay(tree, delta.changed_keys)
    IN  /\ delta.root = Root(old)
        /\ delta.entry_count = num_entries(old)
        /\ \A n \in DOMAIN delta.nodes : delta.nodes[n] = NodeValue(old, n)
        /\ \A k \in DOMAIN delta.changed_keys, d \in 0 .. Depth - 1 :
            <<d, Position(k, d)>> \in DOMAIN delta.nodes

HistoryInv(latest, history) ==
    /\ history \in Seq(Deltas)
    /\ Len(history) <= MaxVersions
    /\ \A i, j \in 1 .. Len(history) : i < j => history[i].version_id < history[j].version_id
    /\ \A i \in 1 .. Len(history) : history[i].version_id < latest.version
    /\ \A i \in 1 .. Len(history) : DeltaExact(latest.tree, history[i])

LineageInv(latest, data) ==
    /\ latest \in [version : Versions, tree : Trees]
    /\ data.latest_version = latest.version
    /\ data.latest_root = Root(latest.tree)
    /\ HistoryInv(latest, data.history)

\* A mutation was prepared against some tree, and changes what it says it changes.
MutationInv(m) ==
    /\ m.kind \in {"AddLineage", "UpdateTree"}
    /\ m.new_version \in Versions
    /\ m.new_pairs \in Pairs
    /\ \E tree \in Trees :
        /\ m.old_root = Root(tree)
        /\ m.new_root = Root(Overlay(tree, m.new_pairs))
        /\ \A k \in DOMAIN m.new_pairs : m.new_pairs[k] # tree[k]
        /\ m.kind = "AddLineage" => tree = EmptyTree
    /\ m.kind = "UpdateTree" => m.old_version \in Versions /\ m.old_version < m.new_version

MutationsInv(mutations) ==
    /\ DOMAIN mutations \subseteq Lineages
    /\ \E version \in Versions :
        \A l \in DOMAIN mutations : MutationInv(mutations[l]) /\ mutations[l].new_version = version

ForestInv ==
    /\ panicked = FALSE
    /\ DOMAIN backend \subseteq Lineages
    /\ DOMAIN lineage_data = DOMAIN backend
    /\ \A l \in DOMAIN backend : LineageInv(backend[l], lineage_data[l])
    /\ non_empty_histories = {l \in DOMAIN backend : lineage_data[l].history # <<>>}

IInv == ForestInv /\ \A mutations \in prepared : MutationsInv(mutations)

----------------------------------------------------------------------------
(* Natural numbers                                                         *)

\* A set of natural numbers has a least element, which is what the search for
\* the first delta newer than a version finds.
LEMMA LeastExists ==
    ASSUME NEW S \in SUBSET Nat, S # {}
    PROVE  \E x \in S : \A y \in S : x <= y
<1> DEFINE R == {ss \in Nat \X Nat : ss[1] < ss[2]}
<1>1. IsWellFoundedOn(R, Nat)
  BY NatLessThanWellFounded DEF OpToRel
<1>2. ASSUME NEW x \in Nat, NEW y \in Nat, y < x PROVE <<y, x>> \in R
  BY <1>2
<1> HIDE DEF R
<1>3. \E x \in S : \A y \in S : ~(<<y, x>> \in R)
  BY <1>1, WFMin, Zenon
<1>4. PICK x \in S : \A y \in S : ~(<<y, x>> \in R)
  BY <1>3
<1>5. \A y \in S : ~(y < x)
  BY <1>2, <1>4, Zenon
<1> QED
  BY <1>5

\* A set of positions of a sequence has a greatest element: the last operation on
\* a key in a batch.
LEMMA GreatestExists ==
    ASSUME NEW n \in Nat, NEW S \in SUBSET (1 .. n), S # {}
    PROVE  \E x \in S : \A y \in S : y <= x
<1> DEFINE T == {n - x : x \in S}
<1>1. T \in SUBSET Nat /\ T # {}
  <2>1. \A x \in S : n - x \in Nat
    OBVIOUS
  <2>2. T \subseteq Nat
    BY <2>1
  <2>3. PICK x \in S : TRUE
    BY Zenon
  <2>4. n - x \in T
    BY <2>3
  <2> QED
    BY <2>2, <2>4
<1>2. PICK t \in T : \A u \in T : t <= u
  BY <1>1, LeastExists, Zenon
<1>3. PICK x \in S : t = n - x
  OBVIOUS
<1>4. ASSUME NEW y \in S PROVE y <= x
  <2>1. n - y \in T
    OBVIOUS
  <2> QED
    BY <1>2, <1>3, <2>1
<1> QED
  BY <1>4

----------------------------------------------------------------------------
(* Trees                                                                   *)

\* Replacing values of a tree gives a tree.
LEMMA OverlayType ==
    ASSUME NEW tree \in Trees, NEW pairs \in Pairs
    PROVE  Overlay(tree, pairs) \in Trees
BY DEF Overlay, Trees, Pairs

\* The symbolic root tells trees apart.
LEMMA RootInjective ==
    ASSUME NEW t \in Trees, NEW u \in Trees, Root(t) = Root(u)
    PROVE  t = u
<1> DEFINE T == {j \in Keys : t[j] # EmptyWord}
           U == {j \in Keys : u[j] # EmptyWord}
<1>1. T = U
  BY DEF Root, Entries
<1>2. \A k \in T : t[k] = u[k]
  BY <1>1 DEF Root, Entries
<1>3. \A k \in Keys : t[k] = u[k]
  BY <1>1, <1>2
<1> QED
  BY <1>3 DEF Trees

\* A mutation changes the tree exactly if it has pairs.
LEMMA OverlayChanges ==
    ASSUME NEW tree \in Trees, NEW pairs \in Pairs,
           \A k \in DOMAIN pairs : pairs[k] # tree[k]
    PROVE  Overlay(tree, pairs) = tree <=> DOMAIN pairs = {}
<1>1. DOMAIN pairs \subseteq Keys
  BY DEF Pairs
<1>2. CASE DOMAIN pairs = {}
  BY <1>2 DEF Overlay, Trees
<1>3. CASE DOMAIN pairs # {}
  <2>1. PICK k \in DOMAIN pairs : TRUE
    BY <1>3
  <2>2. Overlay(tree, pairs)[k] = pairs[k]
    BY <1>1, <2>1 DEF Overlay
  <2> QED
    BY <1>3, <2>1, <2>2
<1> QED
  BY <1>2, <1>3

Reversal(tree, pairs) == [k \in DOMAIN pairs |-> tree[k]]

\* The old values of the changed keys take the new tree back.
LEMMA ReversalUndoes ==
    ASSUME NEW tree \in Trees, NEW pairs \in Pairs
    PROVE  /\ Reversal(tree, pairs) \in Pairs
           /\ Overlay(Overlay(tree, pairs), Reversal(tree, pairs)) = tree
BY DEF Overlay, Reversal, Trees, Pairs

\* A delta that takes the old tree back also does so from the new one, once the
\* old values of keys that it does not know are inserted.
LEMMA ExtensionUndoes ==
    ASSUME NEW tree \in Trees, NEW pairs \in Pairs, NEW changed \in Pairs
    PROVE  /\ or_insert(changed, Reversal(tree, pairs)) \in Pairs
           /\ Overlay(Overlay(tree, pairs), or_insert(changed, Reversal(tree, pairs)))
                = Overlay(tree, changed)
<1>1. PICK S \in SUBSET Keys : pairs \in [S -> Words]
  BY DEF Pairs
<1>2. PICK C \in SUBSET Keys : changed \in [C -> Words]
  BY DEF Pairs
<1>3. or_insert(changed, Reversal(tree, pairs)) \in [S \cup C -> Words]
  BY <1>1, <1>2 DEF or_insert, Reversal, Trees
<1>4. S \cup C \in SUBSET Keys
  OBVIOUS
<1>5. or_insert(changed, Reversal(tree, pairs)) \in Pairs
  BY <1>3, <1>4 DEF Pairs
<1>6. \A k \in Keys : Overlay(Overlay(tree, pairs), or_insert(changed, Reversal(tree, pairs)))[k]
                        = Overlay(tree, changed)[k]
  BY <1>1, <1>2 DEF Overlay, or_insert, Reversal
<1> QED
  BY <1>5, <1>6 DEF Overlay

----------------------------------------------------------------------------
(* Deltas                                                                  *)

\* The value of a node is a hash.
LEMMA NodeValueHash ==
    ASSUME NEW tree \in Trees, NEW n
    PROVE  NodeValue(tree, n) \in Hashes
<1>1. Under(n) \in SUBSET Keys
  BY DEF Under
<1> QED
  BY <1>1 DEF NodeValue, Hashes

\* A node below which nothing differs has the same hash.
LEMMA NodeUnchanged ==
    ASSUME NEW t \in Trees, NEW u \in Trees, NEW n, \A k \in Under(n) : t[k] = u[k]
    PROVE  NodeValue(t, n) = NodeValue(u, n)
<1>1. {j \in Under(n) : t[j] # EmptyWord} = {j \in Under(n) : u[j] # EmptyWord}
  OBVIOUS
<1> QED
  BY <1>1 DEF NodeValue, Entries

\* An inner node that a delta does not hold is the same before and after it.
LEMMA NodeNotHeld ==
    ASSUME NEW tree \in Trees, NEW delta, delta.changed_keys \in Pairs,
           \A k \in DOMAIN delta.changed_keys, d \in 0 .. Depth - 1 :
                <<d, Position(k, d)>> \in DOMAIN delta.nodes,
           NEW d \in 0 .. Depth - 1, NEW p, <<d, p>> \notin DOMAIN delta.nodes
    PROVE  NodeValue(Overlay(tree, delta.changed_keys), <<d, p>>) = NodeValue(tree, <<d, p>>)
<1>1. \A k \in Under(<<d, p>>) : k \in Keys /\ Position(k, d) = p
  BY DEF Under
<1>2. \A k \in Under(<<d, p>>) : k \notin DOMAIN delta.changed_keys
  BY <1>1
<1>3. \A k \in Under(<<d, p>>) : Overlay(tree, delta.changed_keys)[k] = tree[k]
  BY <1>1, <1>2 DEF Overlay
<1>4. Overlay(tree, delta.changed_keys) \in Trees
  BY OverlayType
<1> QED
  BY <1>3, <1>4, NodeUnchanged

\* The delta made when a mutation is applied is exact.
LEMMA ReverseExact ==
    ASSUME NEW tree \in Trees, NEW m, m.new_pairs \in Pairs,
           m.old_root = Root(tree), m.old_version \in Versions
    PROVE  /\ reverse(tree, m) \in Deltas
           /\ DeltaExact(Overlay(tree, m.new_pairs), reverse(tree, m))
<1> DEFINE delta == reverse(tree, m)
           N == {<<d, Position(k, d)>> : d \in 0 .. Depth - 1, k \in DOMAIN m.new_pairs}
<1>1. delta.changed_keys = Reversal(tree, m.new_pairs)
  BY DEF reverse, Reversal
<1>2. /\ delta.changed_keys \in Pairs
      /\ Overlay(Overlay(tree, m.new_pairs), delta.changed_keys) = tree
  BY <1>1, ReversalUndoes
<1>3. DOMAIN m.new_pairs \subseteq Keys
  BY DEF Pairs
<1>4. delta.nodes = [n \in N |-> NodeValue(tree, n)]
  BY DEF reverse
<1>5. \A n : NodeValue(tree, n) \in Hashes
  BY NodeValueHash
<1>6. N \in SUBSET NodeSet
  BY <1>3 DEF NodeSet
<1>7. delta.nodes \in [N -> Hashes]
  BY <1>4, <1>5
<1>8. Root(tree) \in Hashes
  BY DEF Root, Hashes
<1>9. delta \in Deltas
  <2>1. delta.nodes \in UNION {[M -> Hashes] : M \in SUBSET NodeSet}
    BY <1>6, <1>7
  <2>2. delta.entry_count \in {num_entries(t) : t \in Trees}
    BY DEF reverse
  <2>3. delta.root \in Hashes /\ delta.version_id \in Versions
    BY <1>8 DEF reverse
  <2> QED
    BY <1>2, <2>1, <2>2, <2>3 DEF reverse, Deltas
<1>10. \A k \in DOMAIN delta.changed_keys, d \in 0 .. Depth - 1 : <<d, Position(k, d)>> \in N
  BY <1>1 DEF Reversal
<1>11. delta.root = Root(tree) /\ delta.entry_count = num_entries(tree)
  BY DEF reverse
<1> HIDE DEF delta, N
<1>12. DeltaExact(Overlay(tree, m.new_pairs), delta)
  BY <1>2, <1>4, <1>10, <1>11 DEF DeltaExact
<1> QED
  BY <1>9, <1>12 DEF delta

\* An older delta stays exact when a newer one is added to the history.
LEMMA ExtendedExact ==
    ASSUME NEW tree \in Trees, NEW m, m.new_pairs \in Pairs,
           NEW delta \in Deltas, DeltaExact(tree, delta)
    PROVE  LET extended == Extended(delta, reverse(tree, m))
           IN  /\ extended \in Deltas
               /\ extended.version_id = delta.version_id
               /\ Overlay(Overlay(tree, m.new_pairs), extended.changed_keys)
                    = Overlay(tree, delta.changed_keys)
               /\ DeltaExact(Overlay(tree, m.new_pairs), extended)
<1> DEFINE new == reverse(tree, m)
           extended == Extended(delta, new)
           N == {<<d, Position(k, d)>> : d \in 0 .. Depth - 1, k \in DOMAIN m.new_pairs}
           old == Overlay(tree, delta.changed_keys)
<1>1. /\ delta.changed_keys \in Pairs
      /\ delta.nodes \in UNION {[M -> Hashes] : M \in SUBSET NodeSet}
      /\ delta.version_id \in Versions /\ delta.root \in Hashes
      /\ delta.entry_count \in {num_entries(t) : t \in Trees}
  BY DEF Deltas
<1>2. /\ new.changed_keys = Reversal(tree, m.new_pairs)
      /\ new.nodes = [n \in N |-> NodeValue(tree, n)]
  BY DEF reverse, Reversal
<1>3. /\ extended.changed_keys = or_insert(delta.changed_keys, new.changed_keys)
      /\ extended.nodes = or_insert(delta.nodes, new.nodes)
      /\ extended.version_id = delta.version_id
      /\ extended.root = delta.root
      /\ extended.entry_count = delta.entry_count
  BY DEF Extended
<1>4. /\ extended.changed_keys \in Pairs
      /\ Overlay(Overlay(tree, m.new_pairs), extended.changed_keys) = old
  BY <1>1, <1>2, <1>3, ExtensionUndoes
<1>5. DOMAIN m.new_pairs \subseteq Keys
  BY DEF Pairs
<1>6. extended.nodes \in UNION {[M -> Hashes] : M \in SUBSET NodeSet}
  <2>1. PICK M \in SUBSET NodeSet : delta.nodes \in [M -> Hashes]
    BY <1>1
  <2>2. \A n : NodeValue(tree, n) \in Hashes
    BY NodeValueHash
  <2>3. extended.nodes \in [M \cup N -> Hashes]
    BY <1>2, <1>3, <2>1, <2>2 DEF or_insert
  <2>4. M \cup N \in SUBSET NodeSet
    BY <1>5 DEF NodeSet
  <2> QED
    BY <2>3, <2>4
<1>7. extended \in Deltas
  BY <1>1, <1>3, <1>4, <1>6 DEF Extended, Deltas
<1>8. /\ delta.root = Root(old) /\ delta.entry_count = num_entries(old)
      /\ \A n \in DOMAIN delta.nodes : delta.nodes[n] = NodeValue(old, n)
      /\ \A k \in DOMAIN delta.changed_keys, d \in 0 .. Depth - 1 :
            <<d, Position(k, d)>> \in DOMAIN delta.nodes
  BY DEF DeltaExact
<1>9. ASSUME NEW n \in DOMAIN extended.nodes PROVE extended.nodes[n] = NodeValue(old, n)
  <2>1. CASE n \in DOMAIN delta.nodes
    BY <1>3, <1>8, <2>1 DEF or_insert
  <2>2. CASE n \notin DOMAIN delta.nodes
    <3>1. n \in N /\ extended.nodes[n] = NodeValue(tree, n)
      BY <1>2, <1>3, <2>2 DEF or_insert
    <3>2. PICK d \in 0 .. Depth - 1, k \in DOMAIN m.new_pairs : n = <<d, Position(k, d)>>
      BY <3>1
    <3> QED
      BY <1>1, <1>8, <2>2, <3>1, <3>2, NodeNotHeld
  <2> QED
    BY <2>1, <2>2
<1>10. ASSUME NEW k \in DOMAIN extended.changed_keys, NEW d \in 0 .. Depth - 1
       PROVE  <<d, Position(k, d)>> \in DOMAIN extended.nodes
  <2>1. DOMAIN extended.nodes = DOMAIN delta.nodes \cup N
    BY <1>2, <1>3 DEF or_insert
  <2>2. k \in DOMAIN delta.changed_keys \/ k \in DOMAIN m.new_pairs
    BY <1>2, <1>3 DEF or_insert, Reversal
  <2> QED
    BY <1>8, <2>1, <2>2
<1> HIDE DEF extended, old
<1>11. DeltaExact(Overlay(tree, m.new_pairs), extended)
  BY <1>3, <1>4, <1>8, <1>9, <1>10 DEF DeltaExact
<1> QED
  BY <1>3, <1>4, <1>7, <1>11 DEF extended, old

----------------------------------------------------------------------------
(* Histories                                                               *)

Stored == [version : Versions, tree : Trees]

\* A function on 1 .. n is a sequence of length n.
LEMMA FunctionIsSequence ==
    ASSUME NEW S, NEW n \in Nat, NEW f \in [1 .. n -> S]
    PROVE  f \in Seq(S) /\ Len(f) = n
OBVIOUS

\* The snapshots of a lineage are a sequence: one per delta, and the latest tree.
LEMMA SnapshotsType ==
    ASSUME NEW latest \in Stored, NEW history \in Seq(Deltas)
    PROVE  /\ SnapshotsOf(latest, history) \in Seq(Stored)
           /\ Len(SnapshotsOf(latest, history)) = Len(history) + 1
           /\ SnapshotsOf(latest, history)[Len(history) + 1] = latest
           /\ \A i \in 1 .. Len(history) :
                SnapshotsOf(latest, history)[i] =
                    [version |-> history[i].version_id,
                     tree |-> Overlay(latest.tree, history[i].changed_keys)]
<1> DEFINE s == SnapshotsOf(latest, history)
<1>1. Len(history) \in Nat /\ \A i \in 1 .. Len(history) : history[i] \in Deltas
  OBVIOUS
<1>2. \A i \in 1 .. Len(history) :
        history[i].version_id \in Versions /\ history[i].changed_keys \in Pairs
  BY <1>1 DEF Deltas
<1>3. latest.tree \in Trees
  BY DEF Stored
<1>4. \A i \in 1 .. Len(history) : Overlay(latest.tree, history[i].changed_keys) \in Trees
  BY <1>2, <1>3, OverlayType
<1>5. s \in [1 .. Len(history) + 1 -> Stored]
  BY <1>1, <1>2, <1>4 DEF SnapshotsOf, Stored
<1>6. s \in Seq(Stored) /\ Len(s) = Len(history) + 1
  BY <1>1, <1>5
<1>7. s[Len(history) + 1] = latest
  BY <1>1 DEF SnapshotsOf
<1>8. \A i \in 1 .. Len(history) :
        s[i] = [version |-> history[i].version_id,
                tree |-> Overlay(latest.tree, history[i].changed_keys)]
  BY <1>1 DEF SnapshotsOf
<1> QED
  BY <1>6, <1>7, <1>8

\* The new delta stands behind the older ones.
LEMMA AppendedDelta ==
    ASSUME NEW older \in Seq(Deltas), NEW new \in Deltas, NEW longer, longer = Append(older, new)
    PROVE  /\ longer \in Seq(Deltas) /\ Len(longer) = Len(older) + 1
           /\ \A i \in 1 .. Len(older) : longer[i] = older[i]
           /\ longer[Len(older) + 1] = new
OBVIOUS

\* Adding a version keeps the history exact for the new tree, never finds its
\* versions out of order, and gives the snapshots with the old latest tree at
\* the end and, if the history was full, without the oldest.
LEMMA AddVersion ==
    ASSUME NEW latest \in Stored, NEW history, HistoryInv(latest, history),
           NEW m, m.new_pairs \in Pairs, m.old_root = Root(latest.tree),
           m.old_version = latest.version, m.new_version \in Versions,
           m.old_version < m.new_version
    PROVE  LET next == [version |-> m.new_version, tree |-> Overlay(latest.tree, m.new_pairs)]
               longer == add_version(history, reverse(latest.tree, m))
           IN  /\ ~NonMonotonic(history, m.old_version)
               /\ HistoryInv(next, longer)
               /\ longer # <<>>
               /\ SnapshotsOf(next, longer)
                    = Abstract!Keep(Append(SnapshotsOf(latest, history), next))
<1> DEFINE next == [version |-> m.new_version, tree |-> Overlay(latest.tree, m.new_pairs)]
           new == reverse(latest.tree, m)
           longer == add_version(history, new)
           n == Len(history)
           o == IF n >= MaxVersions THEN 1 ELSE 0
           p == n - o
           kept == IF n >= MaxVersions THEN Tail(history) ELSE history
           older == [i \in DOMAIN kept |-> Extended(kept[i], new)]
           tree == latest.tree
<1>1. /\ history \in Seq(Deltas) /\ n \in Nat /\ n <= MaxVersions
      /\ MaxVersions \in Nat /\ MaxVersions >= 1
      /\ \A i \in 1 .. n : history[i] \in Deltas
  BY ForestAssumption DEF HistoryInv
<1>2. latest.version \in Nat /\ tree \in Trees /\ m.new_version \in Nat /\ m.old_version \in Versions
  BY ForestAssumption DEF Stored
<1>3. /\ \A i, j \in 1 .. n : i < j => history[i].version_id < history[j].version_id
      /\ \A i \in 1 .. n : history[i].version_id < latest.version
      /\ \A i \in 1 .. n : history[i].version_id \in Nat
      /\ \A i \in 1 .. n : DeltaExact(tree, history[i])
  <2>1. \A i \in 1 .. n : history[i].version_id \in Nat
    BY <1>1, ForestAssumption DEF Deltas
  <2> QED
    BY <2>1 DEF HistoryInv
<1>4. ~NonMonotonic(history, m.old_version)
  <2>1. SUFFICES ASSUME history # <<>> PROVE ~(history[n].version_id >= m.old_version)
    BY DEF NonMonotonic
  <2>2. n \in 1 .. n
    BY <1>1, <2>1
  <2>3. history[n].version_id < latest.version /\ history[n].version_id \in Nat
    BY <1>3, <2>2
  <2> QED
    BY <1>2, <2>3
<1>5. /\ kept \in Seq(Deltas) /\ Len(kept) = p /\ p \in Nat
      /\ \A i \in 1 .. p : i + o \in 1 .. n /\ kept[i] = history[i + o]
  BY <1>1
<1>6. new \in Deltas /\ DeltaExact(next.tree, new) /\ new.version_id = latest.version
      /\ Overlay(next.tree, new.changed_keys) = tree
  <2>1. new \in Deltas /\ DeltaExact(next.tree, new)
    BY <1>2, ReverseExact
  <2>2. new.changed_keys = Reversal(tree, m.new_pairs) /\ new.version_id = latest.version
    BY DEF reverse, Reversal
  <2> QED
    BY <1>2, <2>1, <2>2, ReversalUndoes
<1>7. ASSUME NEW i \in 1 .. p
      PROVE  LET extended == Extended(history[i + o], new)
             IN  /\ extended \in Deltas
                 /\ extended.version_id = history[i + o].version_id
                 /\ Overlay(next.tree, extended.changed_keys)
                      = Overlay(tree, history[i + o].changed_keys)
                 /\ DeltaExact(next.tree, extended)
  <2>1. i + o \in 1 .. n
    BY <1>5
  <2>2. history[i + o] \in Deltas /\ DeltaExact(tree, history[i + o])
    BY <1>1, <1>3, <2>1
  <2> HIDE DEF o, n, p
  <2> QED
    BY <1>2, <2>2, ExtendedExact
<1>8. older \in Seq(Deltas) /\ Len(older) = p
      /\ \A i \in 1 .. p : older[i] = Extended(history[i + o], new)
  <2>1. DOMAIN kept = 1 .. p
    BY <1>5
  <2>2. \A i \in 1 .. p : older[i] = Extended(history[i + o], new)
    BY <1>5, <2>1
  <2>3. older \in [1 .. p -> Deltas]
    BY <1>7, <2>1, <2>2
  <2>4. older \in Seq(Deltas) /\ Len(older) = p
    <3> HIDE DEF older, n, o, p
    <3> QED
      BY <1>5, <2>3, FunctionIsSequence
  <2> QED
    BY <2>2, <2>4, Zenon
<1>9. longer = Append(older, new)
  BY DEF add_version
<1>10. /\ longer \in Seq(Deltas) /\ Len(longer) = p + 1
       /\ longer[p + 1] = new
       /\ \A i \in 1 .. p : longer[i] = Extended(history[i + o], new)
  <2> HIDE DEF older, o, n, p, new, longer
  <2>1. /\ longer \in Seq(Deltas) /\ Len(longer) = Len(older) + 1
        /\ \A i \in 1 .. Len(older) : longer[i] = older[i]
        /\ longer[Len(older) + 1] = new
    <3>1. older \in Seq(Deltas) /\ new \in Deltas
      BY <1>6, <1>8, Zenon
    <3> QED BY <1>9, <3>1, AppendedDelta
  <2> QED
    BY <1>8, <2>1, Zenon
<1>14. o \in {0, 1} /\ p \in Nat /\ n = p + o /\ p + 1 <= MaxVersions
  BY <1>1
<1> HIDE DEF longer, older, kept, new, n, o, p
<1>11. HistoryInv(next, longer)
  <2>1. Len(longer) <= MaxVersions
    BY <1>10, <1>14
  <2>2. ASSUME NEW i \in 1 .. Len(longer)
        PROVE  /\ longer[i].version_id = IF i = p + 1 THEN latest.version
                                         ELSE history[i + o].version_id
               /\ DeltaExact(next.tree, longer[i])
    <3> HIDE DEF next, tree
    <3>1. CASE i = p + 1
      BY <1>6, <1>10, <3>1, Zenon
    <3>2. CASE i # p + 1
      <4>1. i \in 1 .. p
        BY <1>10, <1>14, <3>2
      <4> QED
        BY <1>7, <1>10, <3>2, <4>1, Zenon
    <3> QED
      BY <3>1, <3>2
  <2>3. \A i, j \in 1 .. Len(longer) : i < j => longer[i].version_id < longer[j].version_id
    <3> SUFFICES ASSUME NEW i \in 1 .. Len(longer), NEW j \in 1 .. Len(longer), i < j
                 PROVE  longer[i].version_id < longer[j].version_id
      OBVIOUS
    <3>1. i \in 1 .. p /\ i + o \in 1 .. n
      BY <1>1, <1>5, <1>10, <1>14
    <3>2. longer[i].version_id = history[i + o].version_id
      BY <1>1, <1>14, <2>2, <3>1
    <3>3. CASE j = p + 1
      BY <1>3, <2>2, <3>1, <3>2, <3>3
    <3>4. CASE j # p + 1
      <4>1. j + o \in 1 .. n /\ i + o < j + o
        <5>1. j \in 1 .. p
          BY <1>10, <1>14, <3>4
        <5> QED
          BY <1>14, <3>1, <5>1
      <4> QED
        BY <1>3, <2>2, <3>1, <3>2, <3>4, <4>1
    <3> QED
      BY <3>3, <3>4
  <2>4. \A i \in 1 .. Len(longer) : longer[i].version_id < next.version
    <3> SUFFICES ASSUME NEW i \in 1 .. Len(longer) PROVE longer[i].version_id < m.new_version
      OBVIOUS
    <3>1. CASE i = p + 1
      BY <1>2, <2>2, <3>1
    <3>2. CASE i # p + 1
      <4>1. i + o \in 1 .. n
        BY <1>1, <1>5, <1>10, <1>14, <3>2
      <4> QED
        BY <1>2, <1>3, <2>2, <3>2, <4>1
    <3> QED
      BY <3>1, <3>2
  <2> QED
    BY <1>10, <2>1, <2>2, <2>3, <2>4 DEF HistoryInv
<1>12. longer # <<>>
  BY <1>5, <1>10
<1>13. SnapshotsOf(next, longer) = Abstract!Keep(Append(SnapshotsOf(latest, history), next))
  <2> DEFINE s == SnapshotsOf(latest, history)
             t == Append(s, next)
             u == SnapshotsOf(next, longer)
  <2>1. next \in Stored
    BY <1>2, OverlayType DEF Stored
  <2>2. /\ s \in Seq(Stored) /\ Len(s) = n + 1 /\ s[n + 1] = latest
        /\ \A i \in 1 .. n : s[i] = [version |-> history[i].version_id,
                                     tree |-> Overlay(tree, history[i].changed_keys)]
    BY <1>1, SnapshotsType DEF n
  <2>3. /\ u \in Seq(Stored) /\ Len(u) = p + 2 /\ u[p + 2] = next
        /\ \A i \in 1 .. p + 1 :
            u[i] = [version |-> longer[i].version_id,
                    tree |-> Overlay(next.tree, longer[i].changed_keys)]
    <3> HIDE DEF next
    <3>1. /\ u \in Seq(Stored) /\ Len(u) = Len(longer) + 1 /\ u[Len(longer) + 1] = next
          /\ \A i \in 1 .. Len(longer) :
              u[i] = [version |-> longer[i].version_id,
                      tree |-> Overlay(next.tree, longer[i].changed_keys)]
      BY <1>10, <2>1, SnapshotsType, Zenon
    <3>2. Len(longer) = p + 1 /\ p + 1 + 1 = p + 2
      BY <1>10, <1>14
    <3> HIDE DEF u
    <3>3. ASSUME NEW i \in 1 .. p + 1
          PROVE  u[i] = [version |-> longer[i].version_id,
                         tree |-> Overlay(next.tree, longer[i].changed_keys)]
      BY <3>1, <3>2, Zenon
    <3> QED
      BY <3>1, <3>2, <3>3, Zenon
  <2> HIDE DEF s, u, next
  <2>4. /\ t \in Seq(Stored) /\ Len(t) = n + 2 /\ t[n + 2] = next /\ t[n + 1] = latest
        /\ \A i \in 1 .. n : t[i] = s[i]
    BY <1>1, <2>1, <2>2
  <2> HIDE DEF t
  <2>5. /\ Abstract!Keep(t) \in Seq(Stored) /\ Len(Abstract!Keep(t)) = p + 2
        /\ \A i \in 1 .. p + 2 : Abstract!Keep(t)[i] = t[i + o]
    <3>1. CASE n >= MaxVersions
      <4>1. o = 1 /\ p + 2 = n + 1 /\ Len(t) > MaxVersions + 1
        BY <1>1, <1>14, <2>4, <3>1 DEF o
      <4>2. Abstract!Keep(t) = Tail(t) /\ t # <<>>
        BY <1>1, <2>4, <4>1 DEF Abstract!Keep
      <4>3. /\ Tail(t) \in Seq(Stored) /\ Len(Tail(t)) = Len(t) - 1
            /\ \A i \in 1 .. Len(Tail(t)) : Tail(t)[i] = t[i + 1]
        BY <2>4, <4>2
      <4>4. Len(Tail(t)) = p + 2
        BY <1>1, <2>4, <4>1, <4>3
      <4> QED
        BY <4>1, <4>2, <4>3, <4>4, Zenon
    <3>2. CASE n < MaxVersions
      <4>1. o = 0 /\ p + 2 = n + 2 /\ ~(Len(t) > MaxVersions + 1)
        BY <1>1, <1>14, <2>4, <3>2 DEF o
      <4>2. Abstract!Keep(t) = t
        BY <4>1 DEF Abstract!Keep
      <4>3. \A i \in 1 .. p + 2 : i + o = i
        BY <1>14, <4>1
      <4> QED
        BY <2>4, <4>1, <4>2, <4>3, Zenon
    <3> QED
      BY <1>1, <3>1, <3>2
  <2>6. ASSUME NEW i \in 1 .. p + 2 PROVE u[i] = Abstract!Keep(t)[i]
    <3>1. CASE i = p + 2
      <4>1. u[i] = next
        BY <2>3, <3>1, Zenon
      <4>2. Abstract!Keep(t)[i] = t[i + o] /\ i + o = n + 2
        BY <1>14, <2>5, <3>1
      <4> QED
        BY <2>4, <4>1, <4>2, Zenon
    <3>2. CASE i = p + 1
      <4>1. u[i] = [version |-> latest.version, tree |-> tree]
        <5>1. i \in 1 .. p + 1 /\ longer[i] = new
          BY <1>10, <1>14, <3>2
        <5>2. u[i] = [version |-> longer[i].version_id,
                      tree |-> Overlay(next.tree, longer[i].changed_keys)]
          BY <2>3, <5>1, Zenon
        <5>3. new.version_id = latest.version /\ Overlay(next.tree, new.changed_keys) = tree
          BY <1>6 DEF next
        <5> QED
          BY <5>1, <5>2, <5>3, Zenon
      <4>2. latest = [version |-> latest.version, tree |-> tree]
        BY DEF Stored
      <4>3. i + o = n + 1
        BY <1>1, <1>14, <3>2
      <4>4. Abstract!Keep(t)[i] = t[i + o]
        BY <2>5, Zenon
      <4> QED
        BY <2>4, <4>1, <4>2, <4>3, <4>4, Zenon
    <3>3. CASE i \in 1 .. p
      <4>1. i + o \in 1 .. n
        BY <1>5, <3>3
      <4>2. u[i] = s[i + o]
        <5>1. longer[i] = Extended(history[i + o], new)
          BY <1>10, <3>3
        <5>2. u[i] = [version |-> longer[i].version_id,
                      tree |-> Overlay(next.tree, longer[i].changed_keys)]
          <6>1. i \in 1 .. p + 1
            BY <1>14, <3>3
          <6> QED
            BY <2>3, <6>1, Zenon
        <5>3. s[i + o] = [version |-> history[i + o].version_id,
                          tree |-> Overlay(tree, history[i + o].changed_keys)]
          BY <2>2, <4>1
        <5>4. /\ longer[i].version_id = history[i + o].version_id
              /\ Overlay(next.tree, longer[i].changed_keys)
                    = Overlay(tree, history[i + o].changed_keys)
          BY <1>7, <3>3, <5>1
        <5> QED
          BY <5>2, <5>3, <5>4
      <4> QED
        BY <1>1, <1>14, <2>4, <2>5, <3>3, <4>1, <4>2
    <3> QED
      BY <1>1, <1>14, <3>1, <3>2, <3>3
  <2>7. u = Abstract!Keep(t)
    BY <2>3, <2>5, <2>6
  <2> QED
    BY <2>7 DEF s, t, u, next
<1> QED
  BY <1>4, <1>11, <1>12, <1>13 DEF longer, new

----------------------------------------------------------------------------
(* Searching and truncating a history                                      *)

\* What the invariant of a history says of its deltas, with the types of their versions.
LEMMA HistoryFacts ==
    ASSUME NEW latest \in Stored, NEW history, HistoryInv(latest, history)
    PROVE  /\ history \in Seq(Deltas) /\ Len(history) \in Nat /\ DOMAIN history = 1 .. Len(history)
           /\ latest.version \in Nat /\ latest.tree \in Trees
           /\ \A i \in 1 .. Len(history) :
                /\ history[i] \in Deltas
                /\ history[i].version_id \in Nat
                /\ history[i].version_id < latest.version
                /\ DeltaExact(latest.tree, history[i])
           /\ \A i, j \in 1 .. Len(history) : i < j => history[i].version_id < history[j].version_id
<1>1. /\ history \in Seq(Deltas) /\ Len(history) \in Nat /\ DOMAIN history = 1 .. Len(history)
      /\ \A i \in 1 .. Len(history) : history[i] \in Deltas
  BY DEF HistoryInv
<1>2. \A i \in 1 .. Len(history) : history[i].version_id \in Nat
  BY <1>1, ForestAssumption DEF Deltas
<1>3. latest.version \in Nat /\ latest.tree \in Trees
  BY ForestAssumption DEF Stored
<1> QED
  BY <1>1, <1>2, <1>3 DEF HistoryInv

\* The search splits the history into the deltas up to a version and the newer ones.
LEMMA FindVersion ==
    ASSUME NEW latest \in Stored, NEW history, HistoryInv(latest, history), NEW version \in Nat
    PROVE  LET ix == find_latest_corresponding_version(history, version)
           IN  /\ ix \in 0 .. Len(history)
               /\ \A i \in 1 .. Len(history) : i <= ix <=> history[i].version_id <= version
<1> DEFINE n == Len(history)
           newer == {i \in DOMAIN history : history[i].version_id > version}
           first == CHOOSE i \in newer : \A j \in newer : i <= j
<1>1. /\ n \in Nat /\ DOMAIN history = 1 .. n
      /\ \A i \in 1 .. n : history[i].version_id \in Nat
      /\ \A i, j \in 1 .. n : i < j => history[i].version_id < history[j].version_id
  BY HistoryFacts
<1>2. CASE newer = {}
  <2>1. find_latest_corresponding_version(history, version) = n
    BY <1>2 DEF find_latest_corresponding_version
  <2>2. \A i \in 1 .. n : history[i].version_id <= version
    BY <1>1, <1>2
  <2> QED
    BY <1>1, <2>1, <2>2
<1>3. CASE newer # {}
  <2>1. \E i \in newer : \A j \in newer : i <= j
    <3>1. newer \in SUBSET Nat
      BY <1>1
    <3> HIDE DEF newer
    <3> QED
      BY <1>3, <3>1, LeastExists
  <2>2. first \in newer /\ \A j \in newer : first <= j
    BY <2>1
  <2>3. find_latest_corresponding_version(history, version) = first - 1
    BY <1>3 DEF find_latest_corresponding_version
  <2> HIDE DEF first
  <2>4. first \in 1 .. n /\ history[first].version_id > version
    BY <1>1, <2>2
  <2>5. ASSUME NEW i \in 1 .. n PROVE i <= first - 1 <=> history[i].version_id <= version
    <3>1. CASE i < first
      <4>1. i \notin newer
        BY <1>1, <2>2, <2>4, <3>1
      <4> QED
        BY <1>1, <2>4, <3>1, <4>1
    <3>2. CASE i = first
      BY <1>1, <2>4, <3>2
    <3>3. CASE i > first
      BY <1>1, <2>4, <3>3
    <3> QED
      BY <2>4, <3>1, <3>2, <3>3
  <2> QED
    BY <1>1, <2>3, <2>4, <2>5
<1> QED
  BY <1>2, <1>3

\* There is one newest snapshot up to a version.
LEMMA NewestIs ==
    ASSUME NEW s \in Seq(Stored), NEW version \in Nat, NEW x \in 1 .. Len(s),
           s[x].version <= version, \A j \in x + 1 .. Len(s) : s[j].version > version
    PROVE  Abstract!NewestUpTo(s, version) = x
<1> DEFINE P(i) == /\ s[i].version <= version
                   /\ \A j \in i + 1 .. Len(s) : s[j].version > version
<1>1. ASSUME NEW i \in 1 .. Len(s) PROVE s[i].version \in Nat
  <2>1. s[i] \in Stored
    OBVIOUS
  <2> QED
    BY <2>1, ForestAssumption DEF Stored
<1>2. ASSUME NEW i \in 1 .. Len(s), P(i) PROVE i = x
  <2>1. ~(i < x)
    BY <1>1, <1>2
  <2>2. ~(x < i)
    BY <1>1, <1>2
  <2> QED
    BY <2>1, <2>2
<1>3. P(x)
  OBVIOUS
<1>4. Abstract!NewestUpTo(s, version) = CHOOSE i \in 1 .. Len(s) : P(i)
  BY DEF Abstract!NewestUpTo
<1> HIDE DEF P
<1> QED
  BY <1>2, <1>3, <1>4

\* The snapshot of a version is the latest one, or the one of the delta that the search finds.
LEMMA SnapshotFor ==
    ASSUME NEW latest \in Stored, NEW history, HistoryInv(latest, history), NEW version \in Nat
    PROVE  LET s == SnapshotsOf(latest, history)
               ix == find_latest_corresponding_version(history, version)
           IN  /\ version >= latest.version =>
                    Abstract!NewestUpTo(s, version) = Len(history) + 1
               /\ version < latest.version /\ ix > 0 => Abstract!NewestUpTo(s, version) = ix
               /\ s[1].version <= version <=> version >= latest.version \/ ix > 0
<1> DEFINE s == SnapshotsOf(latest, history)
           ix == find_latest_corresponding_version(history, version)
           n == Len(history)
<1>1. /\ history \in Seq(Deltas) /\ n \in Nat
      /\ \A i \in 1 .. n : history[i].version_id \in Nat /\ history[i].version_id < latest.version
  BY HistoryFacts
<1>2. latest.version \in Nat
  BY HistoryFacts
<1>3. /\ ix \in 0 .. n
      /\ \A i \in 1 .. n : i <= ix <=> history[i].version_id <= version
  BY FindVersion
<1>4. /\ s \in Seq(Stored) /\ Len(s) = n + 1 /\ s[n + 1] = latest
      /\ \A i \in 1 .. n : s[i] = [version |-> history[i].version_id,
                                   tree |-> Overlay(latest.tree, history[i].changed_keys)]
  BY <1>1, SnapshotsType
<1> HIDE DEF s, ix, n
<1>5. ASSUME NEW i \in 1 .. n PROVE s[i].version = history[i].version_id
  <2>1. s[i] = [version |-> history[i].version_id,
                tree |-> Overlay(latest.tree, history[i].changed_keys)]
    BY <1>4
  <2> QED
    BY <2>1
<1>6. ASSUME version >= latest.version PROVE Abstract!NewestUpTo(s, version) = n + 1
  <2>1. n + 1 \in 1 .. Len(s) /\ s[n + 1].version <= version
    BY <1>1, <1>2, <1>4, <1>6
  <2>2. \A j \in (n + 1) + 1 .. Len(s) : s[j].version > version
    BY <1>1, <1>4
  <2> QED
    BY <1>4, <2>1, <2>2, NewestIs
<1>7. ASSUME version < latest.version, ix > 0 PROVE Abstract!NewestUpTo(s, version) = ix
  <2>1. ix \in 1 .. Len(s) /\ ix \in 1 .. n /\ s[ix].version <= version
    BY <1>1, <1>3, <1>4, <1>5, <1>7
  <2>2. ASSUME NEW j \in ix + 1 .. Len(s) PROVE s[j].version > version
    <3>1. CASE j = n + 1
      BY <1>2, <1>4, <1>7, <3>1
    <3>2. CASE j # n + 1
      <4>1. j \in 1 .. n /\ ~(j <= ix)
        BY <1>1, <1>3, <1>4, <3>2
      <4> QED
        BY <1>1, <1>3, <1>5, <4>1
    <3> QED
      BY <3>1, <3>2
  <2> QED
    BY <1>4, <2>1, <2>2, NewestIs
<1>8. s[1].version <= version <=> version >= latest.version \/ ix > 0
  <2>1. CASE n = 0
    BY <1>2, <1>3, <1>4, <2>1
  <2>2. CASE n # 0
    <3>1. 1 \in 1 .. n /\ (1 <= ix <=> ix > 0)
      BY <1>1, <1>3, <2>2
    <3> QED
      BY <1>1, <1>2, <1>3, <1>5, <3>1
  <2> QED
    BY <2>1, <2>2
<1> QED
  BY <1>6, <1>7, <1>8 DEF s, ix, n

\* A lineage without a history stands for its latest tree only.
LEMMA NoHistory ==
    ASSUME NEW latest \in Stored, NEW history \in Seq(Deltas)
    PROVE  /\ HistoryInv(latest, <<>>)
           /\ SnapshotsOf(latest, <<>>) = <<latest>>
           /\ Abstract!Latest(SnapshotsOf(latest, history)) = latest
<1>1. HistoryInv(latest, <<>>)
  BY ForestAssumption DEF HistoryInv
<1>2. SnapshotsOf(latest, <<>>) = <<latest>>
  BY DEF SnapshotsOf
<1>3. Abstract!Latest(SnapshotsOf(latest, history)) = latest
  BY SnapshotsType DEF Abstract!Latest
<1> QED
  BY <1>1, <1>2, <1>3

\* The deltas from some point on are a history.
LEMMA LaterHistory ==
    ASSUME NEW latest \in Stored, NEW history, HistoryInv(latest, history),
           NEW ix \in 1 .. Len(history)
    PROVE  LET later == SubSeq(history, ix, Len(history))
               s == SnapshotsOf(latest, history)
           IN  /\ HistoryInv(latest, later) /\ later # <<>>
               /\ SnapshotsOf(latest, later) = SubSeq(s, ix, Len(s))
<1> DEFINE later == SubSeq(history, ix, Len(history))
           n == Len(history)
           p == n - ix
           s == SnapshotsOf(latest, history)
           t == SnapshotsOf(latest, later)
<1>1. /\ history \in Seq(Deltas) /\ n \in Nat
      /\ \A i \in 1 .. n : history[i].version_id < latest.version /\ DeltaExact(latest.tree, history[i])
      /\ \A i, j \in 1 .. n : i < j => history[i].version_id < history[j].version_id
  BY HistoryFacts
<1>2. p \in Nat /\ n = p + ix /\ n <= MaxVersions /\ MaxVersions \in Nat
  BY <1>1, ForestAssumption DEF HistoryInv
<1>3. /\ later \in Seq(Deltas) /\ Len(later) = p + 1
      /\ \A i \in 1 .. p + 1 : later[i] = history[i + (ix - 1)]
  BY <1>1
<1> HIDE DEF later, n, p
<1>4. later # <<>> /\ Len(later) <= MaxVersions
  BY <1>2, <1>3
<1>5. ASSUME NEW i \in 1 .. Len(later)
      PROVE  i + (ix - 1) \in 1 .. n /\ later[i] = history[i + (ix - 1)]
  BY <1>2, <1>3
<1>6. ASSUME NEW i \in 1 .. Len(later), NEW j \in 1 .. Len(later), i < j
      PROVE  later[i].version_id < later[j].version_id
  <2>1. i + (ix - 1) < j + (ix - 1)
    BY <1>2, <1>3, <1>6
  <2> QED
    BY <1>1, <1>5, <2>1, Zenon
<1>7. HistoryInv(latest, later)
  BY <1>1, <1>3, <1>4, <1>5, <1>6 DEF HistoryInv
<1>8. /\ s \in Seq(Stored) /\ Len(s) = n + 1 /\ s[n + 1] = latest
      /\ \A i \in 1 .. n : s[i] = [version |-> history[i].version_id,
                                   tree |-> Overlay(latest.tree, history[i].changed_keys)]
  BY <1>1, SnapshotsType DEF n
<1>9. /\ t \in Seq(Stored) /\ Len(t) = Len(later) + 1 /\ t[Len(later) + 1] = latest
      /\ \A i \in 1 .. Len(later) :
            t[i] = [version |-> later[i].version_id,
                    tree |-> Overlay(latest.tree, later[i].changed_keys)]
  BY <1>3, SnapshotsType, Zenon
<1> HIDE DEF s, t
<1>10. /\ SubSeq(s, ix, Len(s)) \in Seq(Stored) /\ Len(SubSeq(s, ix, Len(s))) = p + 2
       /\ \A i \in 1 .. p + 2 : SubSeq(s, ix, Len(s))[i] = s[i + (ix - 1)]
  BY <1>2, <1>8
<1>11. ASSUME NEW i \in 1 .. p + 2 PROVE t[i] = s[i + (ix - 1)]
  <2>1. CASE i = p + 2
    <3>1. i = Len(later) + 1 /\ i + (ix - 1) = n + 1
      BY <1>2, <1>3, <2>1
    <3> QED
      BY <1>8, <1>9, <3>1, Zenon
  <2>2. CASE i # p + 2
    <3>1. i \in 1 .. Len(later) /\ i + (ix - 1) \in 1 .. n /\ later[i] = history[i + (ix - 1)]
      BY <1>2, <1>3, <1>5, <2>2
    <3>2. t[i] = [version |-> later[i].version_id,
                  tree |-> Overlay(latest.tree, later[i].changed_keys)]
      BY <1>9, <3>1, Zenon
    <3>3. s[i + (ix - 1)] = [version |-> history[i + (ix - 1)].version_id,
                             tree |-> Overlay(latest.tree, history[i + (ix - 1)].changed_keys)]
      BY <1>8, <3>1, Zenon
    <3> QED
      BY <3>1, <3>2, <3>3
  <2> QED
    BY <2>1, <2>2
<1>12. Len(t) = p + 2
  <2>1. Len(t) = Len(later) + 1
    BY <1>9, Zenon
  <2> QED
    BY <1>2, <1>3, <2>1
<1>13. t = SubSeq(s, ix, Len(s))
  <2> DEFINE v == SubSeq(s, ix, Len(s))
  <2>1. v \in Seq(Stored) /\ Len(v) = p + 2 /\ \A i \in 1 .. p + 2 : t[i] = v[i]
    BY <1>10, <1>11, Zenon
  <2> HIDE DEF v
  <2>2. t = v
    <3>1. t \in Seq(Stored) /\ Len(t) = Len(v) /\ \A i \in 1 .. Len(t) : t[i] = v[i]
      BY <1>9, <1>12, <2>1, Zenon
    <3> QED
      BY <2>1, <3>1
  <2> QED
    BY <2>2 DEF v
<1> QED
  BY <1>4, <1>7, <1>13 DEF later, s, t

\* Truncation keeps what queries from the version on need, and empties a history
\* only if nothing before the latest tree is needed.
LEMMA TruncateHistory ==
    ASSUME NEW latest \in Stored, NEW history, HistoryInv(latest, history), NEW version \in Nat
    PROVE  LET rest == IF version >= latest.version THEN <<>>
                       ELSE truncate_history(history, version)
           IN  /\ HistoryInv(latest, rest)
               /\ SnapshotsOf(latest, rest) = Abstract!Cut(SnapshotsOf(latest, history), version)
               /\ version < latest.version => (rest = <<>> <=> history = <<>>)
<1> DEFINE s == SnapshotsOf(latest, history)
           ix == find_latest_corresponding_version(history, version)
           n == Len(history)
<1>1. history \in Seq(Deltas) /\ n \in Nat /\ latest.version \in Nat
  BY HistoryFacts
<1>2. s \in Seq(Stored) /\ Len(s) = n + 1 /\ s[n + 1] = latest
  BY <1>1, SnapshotsType
<1>3. ix \in 0 .. n
  BY FindVersion
<1>4. /\ version >= latest.version => Abstract!NewestUpTo(s, version) = n + 1
      /\ version < latest.version /\ ix > 0 => Abstract!NewestUpTo(s, version) = ix
      /\ s[1].version <= version <=> version >= latest.version \/ ix > 0
  BY SnapshotFor
<1>5. 1 \in 1 .. Len(s) /\ s[1] \in Stored
  BY <1>1, <1>2
<1>6. s[1].version \in Nat
  BY <1>5, ForestAssumption DEF Stored
<1> HIDE DEF s, ix, n
<1>7. CASE version >= latest.version
  <2>1. Abstract!Cut(s, version) = SubSeq(s, n + 1, n + 1)
    <3>1. ~(s[1].version > version)
      BY <1>4, <1>6, <1>7
    <3>2. Abstract!NewestUpTo(s, version) = n + 1
      BY <1>4, <1>7
    <3> QED
      BY <1>2, <3>1, <3>2, Zenon DEF Abstract!Cut
  <2>2. SubSeq(s, n + 1, n + 1) = <<latest>>
    <3> DEFINE v == SubSeq(s, n + 1, n + 1)
    <3>1. v \in Seq(Stored) /\ Len(v) = 1 /\ v[1] = s[n + 1]
      BY <1>1, <1>2
    <3> HIDE DEF v
    <3>2. v = <<latest>>
      BY <1>2, <3>1
    <3> QED
      BY <3>2 DEF v
  <2>3. HistoryInv(latest, <<>>) /\ SnapshotsOf(latest, <<>>) = <<latest>>
    BY <1>1, NoHistory
  <2>4. ~(version < latest.version)
    BY <1>1, <1>7
  <2> QED
    BY <1>7, <2>1, <2>2, <2>3, <2>4, Zenon DEF s
<1>8. CASE version < latest.version /\ ix > 0
  <2>1. Abstract!Cut(s, version) = SubSeq(s, ix, Len(s))
    <3>1. ~(s[1].version > version)
      BY <1>4, <1>6, <1>8
    <3>2. Abstract!NewestUpTo(s, version) = ix
      BY <1>4, <1>8
    <3> QED
      BY <3>1, <3>2, Zenon DEF Abstract!Cut
  <2>2. truncate_history(history, version) = SubSeq(history, ix, n) /\ ix \in 1 .. n
    BY <1>1, <1>3, <1>8 DEF truncate_history, ix, n
  <2>3. history # <<>>
    BY <1>1, <2>2 DEF n
  <2> QED
    BY <1>1, <1>8, <2>1, <2>2, <2>3, LaterHistory DEF s, n
<1>9. CASE version < latest.version /\ ix = 0
  <2>1. Abstract!Cut(s, version) = s
    BY <1>1, <1>4, <1>6, <1>9 DEF Abstract!Cut
  <2>2. truncate_history(history, version) = history
    BY <1>9 DEF truncate_history, ix
  <2> QED
    BY <1>1, <1>9, <2>1, <2>2 DEF s
<1>10. version >= latest.version \/ (version < latest.version /\ (ix > 0 \/ ix = 0))
  BY <1>1, <1>3
<1> QED
  BY <1>7, <1>8, <1>9, <1>10, Zenon

----------------------------------------------------------------------------
(* Preparing mutations                                                     *)

\* Of the operations of a batch on one tree, the last one on each key remains.
LEMMA ConsumeType ==
    ASSUME NEW ops \in Seq(Keys \X Words)
    PROVE  consume(ops) \in Pairs
<1> DEFINE D == {ops[i][1] : i \in DOMAIN ops}
           P(k, i) == ops[i][1] = k /\ \A j \in DOMAIN ops : j > i => ops[j][1] # k
           last(k) == CHOOSE i \in DOMAIN ops : P(k, i)
<1>1. /\ Len(ops) \in Nat /\ DOMAIN ops = 1 .. Len(ops)
      /\ \A i \in DOMAIN ops : ops[i] \in Keys \X Words
  OBVIOUS
<1>2. \A i \in DOMAIN ops : ops[i][1] \in Keys /\ ops[i][2] \in Words
  BY <1>1
<1>3. D \in SUBSET Keys
  BY <1>2
<1>4. ASSUME NEW k \in D PROVE last(k) \in DOMAIN ops
  <2> DEFINE S == {i \in DOMAIN ops : ops[i][1] = k}
  <2>1. S \in SUBSET (1 .. Len(ops)) /\ S # {}
    BY <1>1
  <2>2. PICK x \in S : \A y \in S : y <= x
    <3> HIDE DEF S
    <3> QED
      BY <1>1, <2>1, GreatestExists, Zenon
  <2>3. x \in DOMAIN ops /\ P(k, x)
    BY <1>1, <2>2
  <2> HIDE DEF P
  <2> QED
    BY <2>3
<1>5. consume(ops) = [k \in D |-> ops[last(k)][2]]
  BY DEF consume
<1> HIDE DEF last, D
<1>6. consume(ops) \in [D -> Words]
  BY <1>2, <1>4, <1>5
<1> QED
  BY <1>3, <1>6 DEF Pairs

\* The tree that a mutation is prepared against.
LEMMA CurrentTreeType ==
    ASSUME ForestInv, NEW l
    PROVE  CurrentTree(l) \in Trees
<1>1. EmptyTree \in Trees
  BY DEF EmptyTree, Trees, Words
<1>2. l \in DOMAIN backend => backend[l].tree \in Trees
  BY DEF ForestInv, LineageInv
<1> QED
  BY <1>1, <1>2 DEF CurrentTree

\* A prepared mutation set changes what it says it changes, under one new version.
LEMMA ComputedMutations ==
    ASSUME ForestInv, NEW batch \in Batches, NEW version \in Versions, NewVersion(batch, version)
    PROVE  MutationsInv(compute_mutations(version, batch))
<1> DEFINE mutations == compute_mutations(version, batch)
<1>1. DOMAIN mutations = DOMAIN batch /\ DOMAIN batch \subseteq Lineages
  BY ForestAssumption DEF compute_mutations
<1>2. ASSUME NEW l \in DOMAIN mutations
      PROVE  MutationInv(mutations[l]) /\ mutations[l].new_version = version
  <2> DEFINE m == compute_mutation(l, version, batch[l])
             tree == CurrentTree(l)
             pairs == consume(batch[l])
             new_pairs == [k \in {j \in DOMAIN pairs : pairs[j] # tree[j]} |-> pairs[k]]
  <2>1. mutations[l] = m
    BY <1>1 DEF compute_mutations
  <2>2. m = [kind |-> IF l \in DOMAIN backend THEN "UpdateTree" ELSE "AddLineage",
             old_version |-> IF l \in DOMAIN backend THEN backend[l].version ELSE NoVersion,
             new_version |-> version,
             old_root |-> Root(tree),
             new_root |-> Root(Overlay(tree, new_pairs)),
             new_pairs |-> new_pairs]
    BY Zenon DEF compute_mutation
  <2>3. tree \in Trees
    BY CurrentTreeType
  <2>4. pairs \in Pairs
    <3>1. batch[l] \in Seq(Keys \X Words)
      BY <1>1, ForestAssumption DEF Words
    <3> QED
      BY <3>1, ConsumeType
  <2> HIDE DEF pairs, tree, m
  <2>5. new_pairs \in Pairs /\ \A k \in DOMAIN new_pairs : new_pairs[k] # tree[k]
    <3>1. PICK S \in SUBSET Keys : pairs \in [S -> Words]
      BY <2>4 DEF Pairs
    <3>2. {j \in DOMAIN pairs : pairs[j] # tree[j]} \in SUBSET Keys
      BY <3>1
    <3>3. new_pairs \in [{j \in DOMAIN pairs : pairs[j] # tree[j]} -> Words]
      BY <3>1
    <3>4. new_pairs \in Pairs
      BY <3>2, <3>3, Zenon DEF Pairs
    <3> QED
      BY <3>4
  <2>6. l \notin DOMAIN backend => tree = EmptyTree
    BY DEF tree, CurrentTree
  <2>7. l \in DOMAIN backend => backend[l].version \in Versions /\ backend[l].version < version
    BY <1>1 DEF NewVersion, ForestInv, LineageInv
  <2> HIDE DEF new_pairs
  <2>8. /\ m.kind = IF l \in DOMAIN backend THEN "UpdateTree" ELSE "AddLineage"
        /\ m.old_version = IF l \in DOMAIN backend THEN backend[l].version ELSE NoVersion
        /\ m.new_version = version /\ m.old_root = Root(tree)
        /\ m.new_root = Root(Overlay(tree, new_pairs)) /\ m.new_pairs = new_pairs
    BY <2>2
  <2>9. MutationInv(m)
    BY <2>3, <2>5, <2>6, <2>7, <2>8 DEF MutationInv
  <2> QED
    BY <2>1, <2>8, <2>9
<1> QED
  BY <1>1, <1>2 DEF MutationsInv

----------------------------------------------------------------------------
(* Applying mutations                                                      *)

\* What a valid update was prepared against is the tree that the backend has now,
\* and it has pairs exactly if its roots differ.
LEMMA ValidUpdate ==
    ASSUME ForestInv, NEW mutations, MutationsInv(mutations), Valid(mutations),
           NEW l \in DOMAIN mutations, mutations[l].kind = "UpdateTree"
    PROVE  LET m == mutations[l]
               next == Overlay(backend[l].tree, m.new_pairs)
           IN  /\ l \in DOMAIN backend /\ backend[l] \in Stored
               /\ m.new_pairs \in Pairs /\ m.new_version \in Versions
               /\ m.old_root = Root(backend[l].tree) /\ m.new_root = Root(next)
               /\ m.old_version = backend[l].version /\ m.old_version < m.new_version
               /\ next \in Trees
               /\ m.old_root = m.new_root <=> DOMAIN m.new_pairs = {}
               /\ next = backend[l].tree <=> DOMAIN m.new_pairs = {}
<1> DEFINE m == mutations[l]
           now == backend[l].tree
<1>1. l \in DOMAIN backend /\ backend[l].version = m.old_version /\ Root(now) = m.old_root
  BY DEF Valid
<1>2. backend[l] \in Stored /\ now \in Trees
  BY <1>1 DEF ForestInv, LineageInv, Stored
<1>3. /\ m.new_version \in Versions /\ m.new_pairs \in Pairs /\ m.old_version < m.new_version
      /\ \E tree \in Trees :
            /\ m.old_root = Root(tree)
            /\ m.new_root = Root(Overlay(tree, m.new_pairs))
            /\ \A k \in DOMAIN m.new_pairs : m.new_pairs[k] # tree[k]
  BY DEF MutationsInv, MutationInv
<1> HIDE DEF m, now
<1>4. PICK tree \in Trees : /\ m.old_root = Root(tree)
                            /\ m.new_root = Root(Overlay(tree, m.new_pairs))
                            /\ \A k \in DOMAIN m.new_pairs : m.new_pairs[k] # tree[k]
  BY <1>3
<1>5. tree = now
  BY <1>1, <1>2, <1>4, RootInjective
<1>6. Overlay(now, m.new_pairs) \in Trees
  BY <1>2, <1>3, OverlayType
<1>7. Overlay(now, m.new_pairs) = now <=> DOMAIN m.new_pairs = {}
  BY <1>2, <1>3, <1>4, <1>5, OverlayChanges, Zenon
<1>8. Root(Overlay(now, m.new_pairs)) = Root(now) => Overlay(now, m.new_pairs) = now
  BY <1>2, <1>6, RootInjective
<1> QED
  BY <1>1, <1>2, <1>3, <1>4, <1>5, <1>6, <1>7, <1>8 DEF m, now

\* A valid addition starts from the empty tree.
LEMMA ValidAddition ==
    ASSUME NEW mutations, MutationsInv(mutations), Valid(mutations),
           NEW l \in DOMAIN mutations, mutations[l].kind = "AddLineage"
    PROVE  LET m == mutations[l]
           IN  /\ l \notin DOMAIN backend /\ m.new_version \in Versions
               /\ m.new_root = Root(Overlay(CurrentTree(l), m.new_pairs))
               /\ Overlay(CurrentTree(l), m.new_pairs) \in Trees
<1> DEFINE m == mutations[l]
<1>1. l \notin DOMAIN backend
  BY DEF Valid
<1>2. CurrentTree(l) = EmptyTree
  BY <1>1 DEF CurrentTree
<1>3. EmptyTree \in Trees
  BY DEF EmptyTree, Trees, Words
<1>4. m.new_version \in Versions /\ m.new_pairs \in Pairs
      /\ m.new_root = Root(Overlay(EmptyTree, m.new_pairs))
  BY DEF MutationsInv, MutationInv
<1> HIDE DEF m
<1>5. Overlay(EmptyTree, m.new_pairs) \in Trees
  BY <1>3, <1>4, OverlayType
<1> QED
  BY <1>1, <1>2, <1>4, <1>5 DEF m

Same(l, b, d) == l \in DOMAIN backend /\ b = backend[l] /\ d = lineage_data[l]
New(l, b, d, version) ==
    l \notin DOMAIN backend /\ b.version = version /\ SnapshotsOf(b, d.history) = <<b>>
Updated(l, b, d, version) ==
    /\ l \in DOMAIN backend
    /\ b.version = version /\ b.version > backend[l].version /\ b.tree # backend[l].tree
    /\ SnapshotsOf(b, d.history) = Abstract!Keep(Append(Snapshots(l), b))

\* What applying a valid set does to one lineage: nothing, or a first tree, or a
\* next tree with the previous ones before it.  Either way the deltas stay exact.
LEMMA AppliedToLineage ==
    ASSUME ForestInv, NEW mutations, MutationsInv(mutations), Valid(mutations),
           NEW l \in DOMAIN backend \cup DOMAIN mutations
    PROVE  LET b == apply_to_backend(mutations)[l]
               d == apply_to_lineages(mutations)[l]
           IN  /\ LineageInv(b, d)
               /\ d.history # <<>> <=> l \in non_empty_histories \cup Changed(mutations)
               /\ \/ Same(l, b, d)
                  \/ l \in DOMAIN mutations /\ New(l, b, d, mutations[l].new_version)
                  \/ l \in DOMAIN mutations /\ Updated(l, b, d, mutations[l].new_version)
<1> DEFINE m == mutations[l]
           b == apply_to_backend(mutations)[l]
           d == apply_to_lineages(mutations)[l]
<1>1. l \in DOMAIN backend =>
        /\ LineageInv(backend[l], lineage_data[l])
        /\ l \in DOMAIN lineage_data
        /\ l \in non_empty_histories <=> lineage_data[l].history # <<>>
  BY DEF ForestInv
<1>2. l \notin DOMAIN backend => l \notin non_empty_histories
  BY DEF ForestInv
<1>3. b = IF l \notin DOMAIN mutations THEN backend[l]
          ELSE [version |-> IF l \in DOMAIN backend /\ DOMAIN m.new_pairs = {}
                              THEN backend[l].version ELSE m.new_version,
                tree |-> Overlay(CurrentTree(l), m.new_pairs)]
  BY DEF apply_to_backend
<1>4. CASE l \notin DOMAIN mutations
  <2>1. l \in DOMAIN backend /\ l \notin Added(mutations) \cup Changed(mutations)
    BY <1>4 DEF Added, Changed
  <2>2. d = lineage_data[l]
    BY <1>1, <2>1 DEF apply_to_lineages
  <2> QED
    BY <1>1, <1>3, <1>4, <2>1, <2>2 DEF Same
<1>5. CASE l \in DOMAIN mutations /\ m.kind = "AddLineage"
  <2>1. l \in Added(mutations) /\ l \notin Changed(mutations)
    BY <1>5 DEF Added, Changed
  <2>2. d = [history |-> <<>>, latest_version |-> m.new_version, latest_root |-> m.new_root]
    BY <2>1, Zenon DEF apply_to_lineages
  <2>3. /\ l \notin DOMAIN backend /\ m.new_version \in Versions
        /\ m.new_root = Root(Overlay(CurrentTree(l), m.new_pairs))
        /\ Overlay(CurrentTree(l), m.new_pairs) \in Trees
    BY <1>5, ValidAddition
  <2>4. b = [version |-> m.new_version, tree |-> Overlay(CurrentTree(l), m.new_pairs)]
    BY <1>3, <1>5, <2>3
  <2> HIDE DEF b, d, m
  <2>5. b \in Stored
    BY <2>3, <2>4 DEF Stored
  <2>6. HistoryInv(b, <<>>) /\ SnapshotsOf(b, <<>>) = <<b>>
    <3>1. <<>> \in Seq(Deltas)
      OBVIOUS
    <3> QED
      BY <2>5, <3>1, NoHistory, Zenon
  <2>7. /\ d.history = <<>> /\ d.latest_version = m.new_version /\ d.latest_root = m.new_root
        /\ b.version = m.new_version /\ b.tree = Overlay(CurrentTree(l), m.new_pairs)
    BY <2>2, <2>4
  <2>8. LineageInv(b, d)
    BY <2>3, <2>5, <2>6, <2>7 DEF LineageInv, Stored
  <2> QED
    BY <1>2, <1>5, <2>1, <2>3, <2>6, <2>7, <2>8, Zenon DEF New, b, d, m
<1>6. CASE l \in DOMAIN mutations /\ m.kind = "UpdateTree" /\ m.old_root = m.new_root
  <2>1. l \notin Added(mutations) /\ l \notin Changed(mutations)
    BY <1>6 DEF Added, Changed
  <2>2. /\ l \in DOMAIN backend /\ backend[l] \in Stored
        /\ DOMAIN m.new_pairs = {} /\ Overlay(backend[l].tree, m.new_pairs) = backend[l].tree
    BY <1>6, ValidUpdate
  <2>3. d = lineage_data[l]
    BY <1>1, <2>1, <2>2 DEF apply_to_lineages
  <2>4. b = [version |-> backend[l].version, tree |-> backend[l].tree]
    BY <1>3, <1>6, <2>2 DEF CurrentTree
  <2>5. b = backend[l]
    BY <2>2, <2>4 DEF Stored
  <2> QED
    BY <1>1, <2>1, <2>2, <2>3, <2>5 DEF Same
<1>7. CASE l \in DOMAIN mutations /\ m.kind = "UpdateTree" /\ m.old_root # m.new_root
  <2> DEFINE latest == backend[l]
             history == lineage_data[l].history
             next == [version |-> m.new_version, tree |-> Overlay(latest.tree, m.new_pairs)]
             longer == add_version(history, reverse(latest.tree, m))
  <2>1. l \notin Added(mutations) /\ l \in Changed(mutations)
    BY <1>7 DEF Added, Changed
  <2>2. /\ l \in DOMAIN backend /\ latest \in Stored
        /\ m.new_pairs \in Pairs /\ m.new_version \in Versions
        /\ m.old_root = Root(latest.tree) /\ m.new_root = Root(next.tree)
        /\ m.old_version = latest.version /\ m.old_version < m.new_version
        /\ next.tree \in Trees /\ DOMAIN m.new_pairs # {} /\ next.tree # latest.tree
    <3>1. next.tree = Overlay(latest.tree, m.new_pairs)
      OBVIOUS
    <3> HIDE DEF next
    <3> DEFINE changed == Overlay(latest.tree, m.new_pairs)
    <3>2. /\ l \in DOMAIN backend /\ latest \in Stored
          /\ m.new_pairs \in Pairs /\ m.new_version \in Versions
          /\ m.old_root = Root(latest.tree) /\ m.new_root = Root(changed)
          /\ m.old_version = latest.version /\ m.old_version < m.new_version
          /\ changed \in Trees
          /\ m.old_root = m.new_root <=> DOMAIN m.new_pairs = {}
          /\ changed = latest.tree <=> DOMAIN m.new_pairs = {}
      BY <1>7, ValidUpdate
    <3> HIDE DEF changed, latest, m
    <3> QED
      BY <1>7, <3>1, <3>2 DEF changed
  <2>3. d = [history |-> longer, latest_version |-> m.new_version, latest_root |-> m.new_root]
    BY <1>1, <2>1, <2>2 DEF apply_to_lineages
  <2>4. b = next
    BY <1>3, <1>7, <2>2, Zenon DEF CurrentTree
  <2>5. HistoryInv(latest, history)
    BY <1>1, <2>2, Zenon DEF LineageInv
  <2>6. /\ HistoryInv(next, longer) /\ longer # <<>>
        /\ SnapshotsOf(next, longer) = Abstract!Keep(Append(SnapshotsOf(latest, history), next))
    <3> HIDE DEF m, latest, history
    <3> QED
      BY <2>2, <2>5, AddVersion, Zenon
  <2>7. next.version = m.new_version /\ latest.version \in Nat /\ m.new_version \in Nat
    BY <2>2, ForestAssumption DEF Stored
  <2>8. next \in Stored
    BY <2>2 DEF Stored
  <2>9. Snapshots(l) = SnapshotsOf(latest, history)
    BY DEF Snapshots
  <2> HIDE DEF b, d, m, longer, next, latest, history
  <2>10. d.history = longer /\ d.latest_version = m.new_version /\ d.latest_root = m.new_root
    BY <2>3
  <2>11. LineageInv(b, d)
    BY <2>2, <2>4, <2>6, <2>7, <2>8, <2>10, Zenon DEF LineageInv, Stored
  <2>12. b.version > latest.version
    BY <2>2, <2>4, <2>7
  <2>13. Updated(l, b, d, m.new_version)
    BY <2>2, <2>4, <2>6, <2>7, <2>9, <2>10, <2>12 DEF Updated, latest
  <2> QED
    BY <1>7, <2>1, <2>6, <2>10, <2>11, <2>13 DEF b, d, m
<1>8. l \in DOMAIN mutations => m.kind \in {"AddLineage", "UpdateTree"}
  BY DEF MutationsInv, MutationInv
<1> QED
  BY <1>4, <1>5, <1>6, <1>7, <1>8, Zenon

\* A set that passes validation never breaks an expectation of apply_mutations.
LEMMA NeverPanics ==
    ASSUME ForestInv, NEW mutations, MutationsInv(mutations), Valid(mutations)
    PROVE  ~Panics(mutations)
<1> SUFFICES ASSUME NEW l \in Changed(mutations)
             PROVE  /\ l \in DOMAIN lineage_data
                    /\ ~NonMonotonic(lineage_data[l].history, mutations[l].old_version)
  BY DEF Panics
<1> DEFINE m == mutations[l]
<1>1. l \in DOMAIN mutations /\ m.kind = "UpdateTree"
  BY DEF Changed
<1>2. /\ l \in DOMAIN backend /\ backend[l] \in Stored
      /\ m.new_pairs \in Pairs /\ m.new_version \in Versions
      /\ m.old_root = Root(backend[l].tree)
      /\ m.old_version = backend[l].version /\ m.old_version < m.new_version
  BY <1>1, ValidUpdate
<1>3. l \in DOMAIN lineage_data /\ HistoryInv(backend[l], lineage_data[l].history)
  BY <1>2 DEF ForestInv, LineageInv
<1> HIDE DEF m
<1>4. ~NonMonotonic(lineage_data[l].history, m.old_version)
  BY <1>2, <1>3, AddVersion, Zenon
<1> QED
  BY <1>3, <1>4 DEF m

\* Applying a set, valid or stale, keeps the forest consistent and is a commit of
\* whole trees or nothing at all.
LEMMA ApplyStep ==
    ASSUME ForestInv, NEW mutations, MutationsInv(mutations), apply_mutations(mutations)
    PROVE  ForestInv' /\ (Abstract!Commit \/ UNCHANGED <<backend, lineage_data>>)
<1>1. CASE ~Valid(mutations)
  BY <1>1 DEF apply_mutations, ForestInv
<1>2. CASE Valid(mutations)
  <2>1. /\ backend' = apply_to_backend(mutations)
        /\ lineage_data' = apply_to_lineages(mutations)
        /\ non_empty_histories' = non_empty_histories \cup Changed(mutations)
        /\ panicked' = FALSE
    BY <1>2, NeverPanics, Zenon DEF apply_mutations, ForestInv
  <2>2. PICK version \in Versions : \A l \in DOMAIN mutations : mutations[l].new_version = version
    BY DEF MutationsInv
  <2>3. DOMAIN mutations \subseteq Lineages
    BY DEF MutationsInv
  <2>4. \A l \in DOMAIN mutations : l \notin DOMAIN backend <=> l \in Added(mutations)
    BY <1>2 DEF Valid, Added
  <2>5. Added(mutations) \subseteq DOMAIN mutations /\ Changed(mutations) \subseteq DOMAIN mutations
    BY DEF Added, Changed
  <2>6. /\ DOMAIN backend' = DOMAIN backend \cup DOMAIN mutations
        /\ DOMAIN lineage_data' = DOMAIN backend'
    BY <2>1, <2>4, <2>5, Zenon DEF apply_to_backend, apply_to_lineages, ForestInv
  <2>7. ASSUME NEW l \in DOMAIN backend'
        PROVE  /\ LineageInv(backend'[l], lineage_data'[l])
               /\ lineage_data'[l].history # <<>> <=> l \in non_empty_histories'
               /\ \/ Same(l, backend'[l], lineage_data'[l])
                  \/ New(l, backend'[l], lineage_data'[l], version)
                  \/ Updated(l, backend'[l], lineage_data'[l], version)
    <3>1. l \in DOMAIN backend \cup DOMAIN mutations
      BY <2>6
    <3>2. l \in DOMAIN mutations => mutations[l].new_version = version
      BY <2>2
    <3> QED
      BY <1>2, <2>1, <3>1, <3>2, AppliedToLineage, Zenon
  <2>8. DOMAIN backend \subseteq Lineages /\ non_empty_histories \subseteq DOMAIN backend
    BY DEF ForestInv
  <2>9. non_empty_histories' = {l \in DOMAIN backend' : lineage_data'[l].history # <<>>}
    BY <2>1, <2>5, <2>6, <2>7, <2>8, Zenon
  <2>10. ForestInv'
    BY <2>1, <2>3, <2>6, <2>7, <2>8, <2>9, Zenon DEF ForestInv
  <2> DEFINE s == [l \in DOMAIN lineage_data |-> Snapshots(l)]
             t == [l \in DOMAIN lineage_data' |->
                     SnapshotsOf(backend'[l], lineage_data'[l].history)]
  <2>11. DOMAIN s = DOMAIN backend /\ DOMAIN t = DOMAIN backend'
    BY <2>6 DEF ForestInv
  <2>12. ASSUME NEW l \in DOMAIN t
         PROVE  LET new == Abstract!Latest(t[l])
                IN  \/ l \in DOMAIN s /\ t[l] = s[l]
                    \/ /\ l \in Lineages \ DOMAIN s
                       /\ new \in [version : {version}, tree : Trees]
                       /\ t[l] = <<new>>
                    \/ /\ l \in DOMAIN s
                       /\ new \in [version : {version}, tree : Trees]
                       /\ new.version > Abstract!Latest(s[l]).version
                       /\ new.tree # Abstract!Latest(s[l]).tree
                       /\ t[l] = Abstract!Keep(Append(s[l], new))
    <3> DEFINE b == backend'[l]
               d == lineage_data'[l]
    <3>1. l \in DOMAIN backend' /\ l \in DOMAIN lineage_data' /\ l \in Lineages
      BY <2>3, <2>6, <2>8, <2>11, Zenon
    <3>2. t[l] = SnapshotsOf(b, d.history)
      BY <3>1
    <3>3. b \in Stored /\ HistoryInv(b, d.history)
      BY <2>7, <3>1, Zenon DEF LineageInv, Stored
    <3>4. Abstract!Latest(t[l]) = b
      <4>1. d.history \in Seq(Deltas)
        BY <3>3 DEF HistoryInv
      <4> QED
        BY <3>2, <3>3, <4>1, NoHistory
    <3>5. l \in DOMAIN backend => s[l] = Snapshots(l) /\ Abstract!Latest(s[l]) = backend[l]
      <4> SUFFICES ASSUME l \in DOMAIN backend PROVE s[l] = Snapshots(l) /\ Abstract!Latest(s[l]) = backend[l]
        OBVIOUS
      <4>1. s[l] = Snapshots(l)
        BY <2>11
      <4>2. backend[l] \in Stored /\ lineage_data[l].history \in Seq(Deltas)
        BY DEF ForestInv, LineageInv, HistoryInv, Stored
      <4> QED
        BY <4>1, <4>2, NoHistory DEF Snapshots
    <3>6. b.version = version => b \in [version : {version}, tree : Trees]
      BY <3>3 DEF Stored
    <3>7. CASE Same(l, b, d)
      BY <2>11, <3>2, <3>5, <3>7, Zenon DEF Same, Snapshots
    <3> HIDE DEF s, t, b, d
    <3>8. CASE New(l, b, d, version)
      BY <2>11, <3>1, <3>2, <3>4, <3>6, <3>8 DEF New
    <3>9. CASE Updated(l, b, d, version)
      BY <2>11, <3>2, <3>4, <3>5, <3>6, <3>9 DEF Updated
    <3> QED
      BY <2>7, <3>1, <3>7, <3>8, <3>9, Zenon DEF b, d
  <2>13. DOMAIN s \subseteq DOMAIN t
    BY <2>6, <2>11
  <2>14. t = [l \in DOMAIN lineage_data |-> Snapshots(l)]'
    BY DEF Snapshots
  <2>15. Abstract!Commit
    BY <2>12, <2>13, <2>14, Zenon DEF Abstract!Commit, Abstract!Latest, Abstract!Keep, Snapshots
  <2> QED
    BY <2>10, <2>15
<1> QED
  BY <1>1, <1>2

----------------------------------------------------------------------------
(* Truncation and restart                                                  *)

\* What truncation leaves of the history of one lineage.
LEMMA TruncatedLineage ==
    ASSUME NEW data, NEW version
    PROVE  truncate_lineage(data, version).history
             = IF version >= data.latest_version THEN <<>> ELSE truncate_history(data.history, version)
BY DEF truncate_lineage

\* Truncating the lineages that are known to have a history truncates them all.
LEMMA TruncateStep ==
    ASSUME ForestInv, Truncate
    PROVE  ForestInv' /\ Abstract!Truncate
<1>1. PICK version \in Versions :
        /\ lineage_data' = [l \in DOMAIN lineage_data |->
                IF l \in non_empty_histories THEN truncate_lineage(lineage_data[l], version)
                ELSE lineage_data[l]]
        /\ non_empty_histories' =
                {l \in non_empty_histories : version < lineage_data[l].latest_version}
        /\ UNCHANGED <<backend, prepared, panicked>>
  BY DEF Truncate
<1>2. version \in Nat
  BY ForestAssumption
<1>3. DOMAIN lineage_data' = DOMAIN lineage_data /\ DOMAIN lineage_data = DOMAIN backend
  BY <1>1 DEF ForestInv
<1>4. ASSUME NEW l \in DOMAIN backend
      PROVE  /\ LineageInv(backend[l], lineage_data'[l])
             /\ lineage_data'[l].history # <<>> <=> l \in non_empty_histories'
             /\ SnapshotsOf(backend[l], lineage_data'[l].history) = Abstract!Cut(Snapshots(l), version)
  <2> DEFINE latest == backend[l]
             data == lineage_data[l]
             history == data.history
             rest == IF version >= latest.version THEN <<>> ELSE truncate_history(history, version)
  <2>1. /\ LineageInv(latest, data) /\ latest \in Stored /\ HistoryInv(latest, history)
        /\ data.latest_version = latest.version
        /\ l \in non_empty_histories <=> history # <<>>
    BY Zenon DEF ForestInv, LineageInv, Stored
  <2>2. Snapshots(l) = SnapshotsOf(latest, history) /\ latest.version \in Nat
    BY <2>1, HistoryFacts DEF Snapshots
  <2>3. /\ HistoryInv(latest, rest)
        /\ SnapshotsOf(latest, rest) = Abstract!Cut(SnapshotsOf(latest, history), version)
        /\ version < latest.version => (rest = <<>> <=> history = <<>>)
    <3> HIDE DEF latest, history
    <3> QED
      BY <1>2, <2>1, TruncateHistory
  <2>4. l \in non_empty_histories' <=> history # <<>> /\ version < latest.version
    BY <1>1, <2>1
  <2>5. lineage_data'[l].history = rest
    <3>1. CASE l \in non_empty_histories
      <4>1. lineage_data'[l] = truncate_lineage(data, version)
        BY <1>1, <1>3, <3>1
      <4>2. lineage_data'[l].history = IF version >= data.latest_version THEN <<>>
                                       ELSE truncate_history(data.history, version)
        BY <4>1, TruncatedLineage, Zenon
      <4> QED
        BY <2>1, <4>2, Zenon
    <3>2. CASE l \notin non_empty_histories
      <4>1. lineage_data'[l] = data /\ history = <<>>
        BY <1>1, <1>3, <2>1, <3>2
      <4>2. rest = <<>>
        <5>1. CASE version >= latest.version
          BY <5>1, Zenon
        <5>2. CASE version < latest.version
          <6> HIDE DEF rest
          <6> QED
            BY <2>3, <4>1, <5>2, Zenon
        <5>3. version >= latest.version \/ version < latest.version
          BY <1>2, <2>2
        <5> HIDE DEF rest
        <5> QED
          BY <5>1, <5>2, <5>3, Zenon
      <4> QED
        BY <4>1, <4>2
    <3> QED
      BY <3>1, <3>2
  <2>6. /\ lineage_data'[l].latest_version = data.latest_version
        /\ lineage_data'[l].latest_root = data.latest_root
    BY <1>1, <1>3 DEF truncate_lineage
  <2>7. rest # <<>> <=> history # <<>> /\ version < latest.version
    <3>1. CASE version >= latest.version
      <4>1. rest = <<>>
        BY <3>1, Zenon
      <4> HIDE DEF rest
      <4> QED
        BY <1>2, <2>2, <3>1, <4>1
    <3>2. CASE version < latest.version
      <4> HIDE DEF rest
      <4> QED
        BY <2>3, <3>2, Zenon
    <3>3. version >= latest.version \/ version < latest.version
      BY <1>2, <2>2
    <3> HIDE DEF rest
    <3> QED
      BY <3>1, <3>2, <3>3, Zenon
  <2> HIDE DEF rest
  <2>8. LineageInv(latest, lineage_data'[l])
    BY <2>1, <2>3, <2>5, <2>6 DEF LineageInv
  <2> QED
    BY <2>2, <2>3, <2>4, <2>5, <2>7, <2>8, Zenon
<1>5. ForestInv'
  BY <1>1, <1>3, <1>4 DEF ForestInv
<1> DEFINE s == [l \in DOMAIN lineage_data |-> Snapshots(l)]
           t == [l \in DOMAIN lineage_data' |-> SnapshotsOf(backend'[l], lineage_data'[l].history)]
<1>6. t = [l \in DOMAIN s |-> Abstract!Cut(s[l], version)]
  BY <1>1, <1>3, <1>4
<1>7. t = [l \in DOMAIN lineage_data |-> Snapshots(l)]'
  BY DEF Snapshots
<1>8. Abstract!Truncate
  BY <1>6, <1>7, Zenon DEF Abstract!Truncate, Abstract!Cut, Abstract!NewestUpTo, Snapshots
<1> QED
  BY <1>5, <1>8

\* A forest made from the backend remembers the latest trees and no past.
LEMMA RestartStep ==
    ASSUME ForestInv, Restart
    PROVE  ForestInv' /\ Abstract!Restart
<1>1. DOMAIN lineage_data' = DOMAIN backend /\ DOMAIN lineage_data = DOMAIN backend
  BY DEF Restart, ForestInv
<1>2. ASSUME NEW l \in DOMAIN backend
      PROVE  /\ LineageInv(backend[l], lineage_data'[l])
             /\ lineage_data'[l].history = <<>>
             /\ SnapshotsOf(backend[l], lineage_data'[l].history)
                    = <<Abstract!Latest(Snapshots(l))>>
  <2>1. /\ lineage_data'[l].history = <<>>
        /\ lineage_data'[l].latest_version = backend[l].version
        /\ lineage_data'[l].latest_root = Root(backend[l].tree)
    BY DEF Restart
  <2>2. /\ backend[l] \in Stored /\ lineage_data[l].history \in Seq(Deltas)
    BY DEF ForestInv, LineageInv, HistoryInv, Stored
  <2>3. /\ HistoryInv(backend[l], <<>>)
        /\ SnapshotsOf(backend[l], <<>>) = <<backend[l]>>
        /\ Abstract!Latest(Snapshots(l)) = backend[l]
    BY <2>2, NoHistory DEF Snapshots
  <2> QED
    BY <2>1, <2>2, <2>3 DEF LineageInv, Stored
<1>3. ForestInv'
  BY <1>1, <1>2 DEF ForestInv, Restart
<1> DEFINE s == [l \in DOMAIN lineage_data |-> Snapshots(l)]
           t == [l \in DOMAIN lineage_data' |-> SnapshotsOf(backend'[l], lineage_data'[l].history)]
<1>4. t = [l \in DOMAIN s |-> <<Abstract!Latest(s[l])>>]
  BY <1>1, <1>2 DEF Restart
<1>5. t = [l \in DOMAIN lineage_data |-> Snapshots(l)]'
  BY DEF Snapshots
<1>6. Abstract!Restart
  BY <1>4, <1>5 DEF Abstract!Restart, Abstract!Latest, Snapshots
<1> QED
  BY <1>3, <1>6

----------------------------------------------------------------------------
(* Theorems                                                                *)

\* Every step keeps the invariant and is a step of the forest of whole trees, or none of it.
LEMMA Step ==
    ASSUME IInv, [Next]_vars
    PROVE  IInv' /\ (Abstract!Next \/ UNCHANGED <<backend, lineage_data>>)
<1>1. ForestInv /\ \A mutations \in prepared : MutationsInv(mutations)
  BY DEF IInv
<1>2. ASSUME ForestInv', prepared' \subseteq prepared PROVE IInv'
  BY <1>1, <1>2 DEF IInv, MutationsInv, MutationInv
<1>3. ASSUME UNCHANGED <<backend, lineage_data, non_empty_histories, panicked>> PROVE ForestInv'
  BY <1>1, <1>3 DEF ForestInv
<1>4. CASE ComputeMutations
  <2>1. PICK batch \in Batches, version \in Versions :
          /\ NewVersion(batch, version)
          /\ prepared' = prepared \cup {compute_mutations(version, batch)}
          /\ UNCHANGED <<backend, lineage_data, non_empty_histories, panicked>>
    BY <1>4 DEF ComputeMutations
  <2>2. MutationsInv(compute_mutations(version, batch))
    BY <1>1, <2>1, ComputedMutations
  <2>3. ForestInv'
    BY <1>3, <2>1
  <2>4. \A mutations \in prepared' : MutationsInv(mutations)
    BY <1>1, <2>1, <2>2
  <2>5. IInv'
    BY <2>3, <2>4, Zenon DEF IInv, MutationsInv, MutationInv
  <2> QED
    BY <2>1, <2>5
<1>5. CASE ApplyMutations
  <2>1. PICK mutations \in prepared :
          apply_mutations(mutations) /\ prepared' = prepared \ {mutations}
    BY <1>5 DEF ApplyMutations
  <2>2. ForestInv' /\ (Abstract!Commit \/ UNCHANGED <<backend, lineage_data>>)
    BY <1>1, <2>1, ApplyStep
  <2> QED
    BY <1>2, <2>1, <2>2 DEF Abstract!Next
<1>6. CASE Discard
  BY <1>2, <1>3, <1>6 DEF Discard
<1>7. CASE AddLineages
  <2>1. PICK batch \in Batches, version \in Versions :
          /\ DOMAIN batch \cap DOMAIN lineage_data = {}
          /\ apply_mutations(compute_mutations(version, batch))
          /\ UNCHANGED prepared
    BY <1>7 DEF AddLineages
  <2>2. NewVersion(batch, version)
    BY <2>1 DEF NewVersion
  <2>3. MutationsInv(compute_mutations(version, batch))
    BY <1>1, <2>2, ComputedMutations
  <2>4. ForestInv' /\ (Abstract!Commit \/ UNCHANGED <<backend, lineage_data>>)
    BY <1>1, <2>1, <2>3, ApplyStep
  <2> QED
    BY <1>2, <2>1, <2>4 DEF Abstract!Next
<1>8. CASE UpdateForest
  <2>1. PICK batch \in Batches, version \in Versions :
          /\ NewVersion(batch, version)
          /\ apply_mutations(compute_mutations(version, batch))
          /\ UNCHANGED prepared
    BY <1>8 DEF UpdateForest
  <2>2. MutationsInv(compute_mutations(version, batch))
    BY <1>1, <2>1, ComputedMutations
  <2>3. ForestInv' /\ (Abstract!Commit \/ UNCHANGED <<backend, lineage_data>>)
    BY <1>1, <2>1, <2>2, ApplyStep
  <2> QED
    BY <1>2, <2>1, <2>3 DEF Abstract!Next
<1>9. CASE Truncate
  <2>1. ForestInv' /\ Abstract!Truncate
    BY <1>1, <1>9, TruncateStep
  <2>2. prepared' = prepared
    BY <1>9 DEF Truncate
  <2> QED
    BY <1>2, <2>1, <2>2 DEF Abstract!Next
<1>10. CASE Restart
  <2>1. ForestInv' /\ Abstract!Restart
    BY <1>1, <1>10, RestartStep
  <2>2. prepared' = {}
    BY <1>10 DEF Restart
  <2> QED
    BY <1>2, <2>1, <2>2 DEF Abstract!Next
<1>11. CASE UNCHANGED vars
  BY <1>2, <1>3, <1>11 DEF vars
<1> QED
  BY <1>4, <1>5, <1>6, <1>7, <1>8, <1>9, <1>10, <1>11 DEF Next

\* The invariant of the forest holds in every state.
LEMMA Invariance == Spec => []IInv
<1>1. Init => IInv
  <2> SUFFICES ASSUME Init PROVE IInv
    OBVIOUS
  <2>1. DOMAIN backend = {} /\ DOMAIN lineage_data = {}
    BY DEF Init
  <2> QED
    BY <2>1 DEF Init, IInv, ForestInv
<1>2. IInv /\ [Next]_vars => IInv'
  BY Step
<1> QED
  BY <1>1, <1>2, PTL DEF Spec

\* Whatever mutation sets were prepared against whatever earlier forest, what the
\* forest remembers of each lineage agrees with the backend, truncation looks at
\* exactly the lineages that have a history, and apply_mutations never panics.
THEOREM ForestIsConsistent == Spec => []ForestAgreesWithBackend
<1>1. IInv => ForestAgreesWithBackend
  BY DEF IInv, ForestInv, LineageInv, ForestAgreesWithBackend
<1> QED
  BY <1>1, Invariance, PTL

\* The forest that keeps deltas implements the forest that keeps whole trees.
THEOREM ForestRefinesSnapshots == Spec => ImplementsSnapshots
<1>1. Init => Abstract!Init
  BY DEF Init, Abstract!Init
<1>2. IInv /\ [Next]_vars => [Abstract!Next]_([l \in DOMAIN lineage_data |-> Snapshots(l)])
  <2> SUFFICES ASSUME IInv, [Next]_vars
               PROVE  Abstract!Next \/ UNCHANGED [l \in DOMAIN lineage_data |-> Snapshots(l)]
    OBVIOUS
  <2>1. UNCHANGED <<backend, lineage_data>> =>
            UNCHANGED [l \in DOMAIN lineage_data |-> Snapshots(l)]
    BY DEF Snapshots
  <2> QED
    BY <2>1, Step
<1> QED
  BY <1>1, <1>2, Invariance, PTL DEF Spec, ImplementsSnapshots, Abstract!Spec

----------------------------------------------------------------------------
(* Every query of the forest with history, at every version it still       *)
(* knows, answers from the tree committed with that version.               *)

\* A leaf of the latest tree merged with the changes of a delta is the leaf of
\* the earlier tree, entries that the history removed or added included.
LEMMA MergedLeaf ==
    ASSUME NEW tree \in Trees, NEW delta, delta.changed_keys \in Pairs, NEW n
    PROVE  merge_leaves(NodeValue(tree, n), delta.changed_keys, ChangesAt(delta, n))
             = NodeValue(Overlay(tree, delta.changed_keys), n)
<1> DEFINE c == delta.changed_keys
           old == Overlay(tree, c)
           leaf == NodeValue(tree, n)
           changes == ChangesAt(delta, n)
           kept == {k \in DOMAIN leaf : k \in DOMAIN c => c[k] # EmptyWord}
           added == {k \in DOMAIN changes : changes[k] # EmptyWord}
           D == {k \in Under(n) : old[k] # EmptyWord}
<1>1. /\ DOMAIN leaf = {k \in Under(n) : tree[k] # EmptyWord}
      /\ \A k \in DOMAIN leaf : leaf[k] = tree[k]
  BY DEF NodeValue, Entries
<1>2. /\ DOMAIN changes = DOMAIN c \cap Under(n)
      /\ \A k \in DOMAIN changes : changes[k] = c[k]
  BY DEF ChangesAt
<1>3. \A k \in Under(n) : old[k] = IF k \in DOMAIN c THEN c[k] ELSE tree[k]
  BY DEF Under, Overlay
<1>4. NodeValue(old, n) = [k \in D |-> old[k]]
  BY DEF NodeValue, Entries
<1>5. merge_leaves(leaf, c, changes)
        = [k \in kept \cup added |-> IF k \in added THEN changes[k] ELSE leaf[k]]
  BY DEF merge_leaves
<1> HIDE DEF c, old, leaf, changes
<1>6. kept \cup added = D
  BY <1>1, <1>2, <1>3
<1>7. ASSUME NEW k \in D PROVE (IF k \in added THEN changes[k] ELSE leaf[k]) = old[k]
  BY <1>1, <1>2, <1>3, <1>6
<1> HIDE DEF kept, added, D
<1> QED
  BY <1>4, <1>5, <1>6, <1>7 DEF c, old, leaf, changes

\* The entries of the latest tree and of the history, merged, are those of the earlier tree.
LEMMA MergedEntries ==
    ASSUME NEW tree \in Trees, NEW c \in Pairs
    PROVE  entries_with_history(Entries(tree, Keys), c)
             = {<<k, Overlay(tree, c)[k]>> : k \in DOMAIN Root(Overlay(tree, c))}
<1> DEFINE full == Entries(tree, Keys)
           old == Overlay(tree, c)
           yielded == DOMAIN full \cap DOMAIN c
           F == {j \in DOMAIN full : j \in yielded => c[j] # EmptyWord}
           H == {j \in DOMAIN c \ yielded : c[j] # EmptyWord}
<1>1. /\ DOMAIN full = {k \in Keys : tree[k] # EmptyWord}
      /\ \A k \in DOMAIN full : full[k] = tree[k]
  BY DEF Entries
<1>2. \A k \in Keys : old[k] = IF k \in DOMAIN c THEN c[k] ELSE tree[k]
  BY DEF Overlay
<1>3. DOMAIN Root(old) = {k \in Keys : old[k] # EmptyWord}
  BY DEF Root, Entries
<1>4. DOMAIN c \subseteq Keys
  BY DEF Pairs
<1>5. entries_with_history(full, c)
        = {<<k, IF k \in yielded THEN c[k] ELSE full[k]>> : k \in F} \cup {<<k, c[k]>> : k \in H}
  BY DEF entries_with_history
<1> HIDE DEF full, old
<1>6. F \cup H = DOMAIN Root(old)
  BY <1>1, <1>2, <1>3, <1>4
<1>7. ASSUME NEW k \in F PROVE (IF k \in yielded THEN c[k] ELSE full[k]) = old[k]
  BY <1>1, <1>2
<1>8. ASSUME NEW k \in H PROVE c[k] = old[k]
  BY <1>2, <1>4
<1> HIDE DEF yielded, F, H
<1>9. {<<k, IF k \in yielded THEN c[k] ELSE full[k]>> : k \in F} = {<<k, old[k]>> : k \in F}
  BY <1>7
<1>10. {<<k, c[k]>> : k \in H} = {<<k, old[k]>> : k \in H}
  BY <1>8
<1>11. {<<k, old[k]>> : k \in F} \cup {<<k, old[k]>> : k \in H} = {<<k, old[k]>> : k \in F \cup H}
  OBVIOUS
<1> QED
  BY <1>5, <1>6, <1>9, <1>10, <1>11, Zenon DEF full, old

\* The siblings on the way to a leaf, from the delta where it holds them, merged
\* at the leaves, and from the latest tree otherwise.
LEMMA MergedPathNode ==
    ASSUME NEW tree \in Trees, NEW delta \in Deltas, DeltaExact(tree, delta),
           NEW d \in 1 .. Depth, NEW p
    PROVE  merge_path_node(tree, delta, <<d, p>>)
             = NodeValue(Overlay(tree, delta.changed_keys), <<d, p>>)
<1> DEFINE n == <<d, p>>
           old == Overlay(tree, delta.changed_keys)
<1>1. delta.changed_keys \in Pairs /\ old \in Trees
  BY OverlayType DEF Deltas
<1>2. /\ \A x \in DOMAIN delta.nodes : delta.nodes[x] = NodeValue(old, x)
      /\ \A k \in DOMAIN delta.changed_keys, e \in 0 .. Depth - 1 :
            <<e, Position(k, e)>> \in DOMAIN delta.nodes
  BY DEF DeltaExact
<1>3. n[1] = d
  OBVIOUS
<1> HIDE DEF n, old
<1>4. CASE n \in DOMAIN delta.nodes
  BY <1>2, <1>4, Zenon DEF merge_path_node, n, old
<1>5. CASE n \notin DOMAIN delta.nodes /\ d = Depth /\ DOMAIN ChangesAt(delta, n) # {}
  BY <1>1, <1>3, <1>5, MergedLeaf DEF merge_path_node, n, old
<1>6. CASE n \notin DOMAIN delta.nodes /\ DOMAIN ChangesAt(delta, n) = {}
  <2>1. \A k \in Under(n) : k \in Keys /\ k \notin DOMAIN delta.changed_keys
    BY <1>6 DEF ChangesAt, Under
  <2>2. \A k \in Under(n) : old[k] = tree[k]
    BY <2>1 DEF Overlay, old
  <2>3. NodeValue(old, n) = NodeValue(tree, n)
    BY <1>1, <2>2, NodeUnchanged
  <2> QED
    BY <1>6, <2>3 DEF merge_path_node, n, old
<1>7. CASE n \notin DOMAIN delta.nodes /\ d # Depth
  <2>1. d \in 0 .. Depth - 1
    BY <1>7, ForestAssumption
  <2>2. NodeValue(old, n) = NodeValue(tree, n)
    BY <1>1, <1>2, <1>7, <2>1, NodeNotHeld DEF n, old
  <2> QED
    BY <1>3, <1>7, <2>2 DEF merge_path_node, n, old
<1> QED
  BY <1>4, <1>5, <1>6, <1>7, Zenon

\* What the queries answer at one version of one lineage.
Exact(l, version, tree) ==
    /\ root_info(l, version) = Root(tree)
    /\ entry_count(l, version) = num_entries(tree)
    /\ entries(l, version) = {<<k, tree[k]>> : k \in DOMAIN Root(tree)}
    /\ \A key \in Keys : get(l, version, key) = tree[key] /\ open(l, version, key) = Opening(tree, key)

\* Queries at the latest version answer from the backend.
LEMMA LatestIsExact ==
    ASSUME ForestInv, NEW l \in DOMAIN backend, NEW version, IsLatest(l, version)
    PROVE  Exact(l, version, backend[l].tree)
<1> DEFINE tree == backend[l].tree
<1>1. lineage_data[l].latest_root = Root(tree)
  BY Zenon DEF ForestInv, LineageInv
<1>2. tree \in Trees
  BY DEF ForestInv, LineageInv
<1>3. entries(l, version) = entries_with_history(Entries(tree, Keys), <<>>)
  BY DEF entries
<1>4. <<>> \in Pairs /\ Overlay(tree, <<>>) = tree
  <2>1. <<>> \in [{} -> Words] /\ DOMAIN <<>> = {}
    OBVIOUS
  <2> QED
    BY <1>2, <2>1 DEF Pairs, Overlay, Trees
<1>5. entries(l, version) = {<<k, tree[k]>> : k \in DOMAIN Root(tree)}
  BY <1>2, <1>3, <1>4, MergedEntries
<1> QED
  BY <1>1, <1>5, Zenon DEF Exact, root_info, entry_count, get, open

\* Queries at an earlier version answer from the latest tree and the delta found
\* for the version.
LEMMA EarlierIsExact ==
    ASSUME ForestInv, NEW l \in DOMAIN backend, NEW version, ~IsLatest(l, version),
           View(l, version) \in Deltas, DeltaExact(backend[l].tree, View(l, version))
    PROVE  Exact(l, version, Overlay(backend[l].tree, View(l, version).changed_keys))
<1> DEFINE tree == backend[l].tree
           delta == View(l, version)
           old == Overlay(tree, delta.changed_keys)
<1>1. tree \in Trees
  BY Zenon DEF ForestInv, LineageInv
<1>2. delta.changed_keys \in Pairs /\ delta.root = Root(old) /\ delta.entry_count = num_entries(old)
  BY DEF Deltas, DeltaExact
<1>3. root_info(l, version) = Root(old) /\ entry_count(l, version) = num_entries(old)
  BY <1>2, Zenon DEF root_info, entry_count
<1>4. entries(l, version) = {<<k, old[k]>> : k \in DOMAIN Root(old)}
  <2>1. entries(l, version) = entries_with_history(Entries(tree, Keys), delta.changed_keys)
    BY DEF entries
  <2> HIDE DEF tree, delta
  <2> QED
    BY <1>1, <1>2, <2>1, MergedEntries, Zenon
<1>5. ASSUME NEW key \in Keys PROVE get(l, version, key) = old[key]
  BY DEF get, Overlay
<1>6. ASSUME NEW key \in Keys PROVE open(l, version, key) = Opening(old, key)
  <2> DEFINE n == <<Depth, Leaf[key]>>
             sibling(d) == Sibling(<<d, Position(key, d)>>)
  <2>1. merge_leaves(NodeValue(tree, n), delta.changed_keys, ChangesAt(delta, n)) = NodeValue(old, n)
    <3> HIDE DEF tree, delta, n
    <3> QED
      BY <1>1, <1>2, MergedLeaf
  <2>2. ASSUME NEW d \in 1 .. Depth
        PROVE  merge_path_node(tree, delta, sibling(d)) = NodeValue(old, sibling(d))
    <3>1. PICK p : sibling(d) = <<d, p>>
      BY DEF Sibling
    <3>2. merge_path_node(tree, delta, <<d, p>>) = NodeValue(old, <<d, p>>)
      <4> HIDE DEF tree, delta
      <4> QED
        BY <1>1, MergedPathNode DEF tree, delta
    <3> QED
      BY <3>1, <3>2
  <2>3. open(l, version, key) =
            [leaf |-> merge_leaves(NodeValue(tree, n), delta.changed_keys, ChangesAt(delta, n)),
             path |-> [d \in 1 .. Depth |-> merge_path_node(tree, delta, sibling(d))]]
    BY DEF open
  <2>4. Opening(old, key) = [leaf |-> NodeValue(old, n),
                             path |-> [d \in 1 .. Depth |-> NodeValue(old, sibling(d))]]
    BY DEF Opening
  <2> HIDE DEF tree, delta, old, n, sibling
  <2>5. [d \in 1 .. Depth |-> merge_path_node(tree, delta, sibling(d))]
            = [d \in 1 .. Depth |-> NodeValue(old, sibling(d))]
    BY <2>2
  <2> QED
    BY <2>1, <2>3, <2>4, <2>5, Zenon
<1> QED
  BY <1>3, <1>4, <1>5, <1>6, Zenon DEF Exact

\* Every query at every version that the forest knows answers from the tree that
\* was committed with that version, and it knows exactly the versions from its
\* oldest snapshot to the latest.
THEOREM QueriesAnswerFromSnapshots == Spec => []QueriesAreExact
<1>1. ASSUME IInv PROVE QueriesAreExact
  <2>1. ForestInv
    BY <1>1 DEF IInv
  <2> SUFFICES ASSUME NEW l \in DOMAIN lineage_data, NEW version \in Versions
               PROVE  /\ Served(l, version) <=> Abstract!Known(Snapshots(l), version)
                      /\ Served(l, version) =>
                            Exact(l, version, Abstract!At(Snapshots(l), version))
    BY Zenon DEF QueriesAreExact, Exact
  <2> DEFINE latest == backend[l]
             history == lineage_data[l].history
             s == SnapshotsOf(latest, history)
             ix == find_latest_corresponding_version(history, version)
             n == Len(history)
  <2>2. /\ l \in DOMAIN backend /\ latest \in Stored /\ HistoryInv(latest, history)
        /\ lineage_data[l].latest_version = latest.version
    BY <2>1, Zenon DEF ForestInv, LineageInv, Stored
  <2>3. version \in Nat
    BY ForestAssumption
  <2>4. /\ history \in Seq(Deltas) /\ n \in Nat /\ latest.version \in Nat
        /\ \A i \in 1 .. n : history[i] \in Deltas /\ DeltaExact(latest.tree, history[i])
    <3> HIDE DEF latest, history
    <3> QED
      BY <2>2, HistoryFacts, Zenon
  <2>5. /\ s \in Seq(Stored) /\ Len(s) = n + 1 /\ s[n + 1] = latest
        /\ \A i \in 1 .. n : s[i] = [version |-> history[i].version_id,
                                     tree |-> Overlay(latest.tree, history[i].changed_keys)]
    <3> HIDE DEF latest, history
    <3> QED
      BY <2>2, <2>4, SnapshotsType, Zenon
  <2>6. ix \in 0 .. n
    <3> HIDE DEF latest, history
    <3> QED
      BY <2>2, <2>3, FindVersion
  <2>7. /\ version >= latest.version => Abstract!NewestUpTo(s, version) = n + 1
        /\ version < latest.version /\ ix > 0 => Abstract!NewestUpTo(s, version) = ix
        /\ s[1].version <= version <=> version >= latest.version \/ ix > 0
    <3> HIDE DEF latest, history
    <3> QED
      BY <2>2, <2>3, SnapshotFor, Zenon
  <2>8. Snapshots(l) = s
    BY DEF Snapshots
  <2>9. /\ Served(l, version) <=> version <= latest.version /\ (version = latest.version \/ ix > 0)
        /\ IsLatest(l, version) <=> version = latest.version
        /\ View(l, version) = history[ix]
    BY <2>2 DEF Served, IsLatest, View
  <2> HIDE DEF latest, history, s, ix, n
  <2>10. Abstract!Known(s, version) <=> s[1].version <= version /\ version <= latest.version
    BY <2>5 DEF Abstract!Known, Abstract!Latest
  <2>11. Served(l, version) <=> Abstract!Known(s, version)
    <3>1. latest.version \in Nat
      BY <2>4
    <3>2. version <= latest.version <=> version < latest.version \/ version = latest.version
      BY <2>3, <3>1
    <3>3. version >= latest.version /\ version <= latest.version <=> version = latest.version
      BY <2>3, <3>1
    <3> QED
      BY <2>7, <2>9, <2>10, <3>2, <3>3, Zenon
  <2>12. CASE version = latest.version
    <3>1. Abstract!At(s, version) = latest.tree
      BY <2>3, <2>4, <2>5, <2>7, <2>12 DEF Abstract!At
    <3>2. Exact(l, version, latest.tree)
      BY <2>1, <2>2, <2>9, <2>12, LatestIsExact, Zenon DEF latest
    <3> QED
      BY <2>8, <2>11, <3>1, <3>2
  <2>13. CASE version < latest.version /\ ix > 0
    <3>1. ix \in 1 .. n /\ Abstract!NewestUpTo(s, version) = ix
      BY <2>4, <2>6, <2>7, <2>13
    <3>2. Abstract!At(s, version) = Overlay(latest.tree, history[ix].changed_keys)
      <4>1. s[ix] = [version |-> history[ix].version_id,
                     tree |-> Overlay(latest.tree, history[ix].changed_keys)]
        BY <2>5, <3>1
      <4> QED
        BY <3>1, <4>1 DEF Abstract!At
    <3>3. View(l, version) \in Deltas /\ DeltaExact(latest.tree, View(l, version))
      BY <2>4, <2>9, <3>1
    <3>4. ~IsLatest(l, version)
      BY <2>3, <2>4, <2>9, <2>13
    <3>5. Exact(l, version, Overlay(latest.tree, View(l, version).changed_keys))
      BY <2>1, <2>2, <3>3, <3>4, EarlierIsExact, Zenon DEF latest
    <3> QED
      BY <2>8, <2>9, <2>11, <3>2, <3>5
  <2>14. CASE ~Served(l, version)
    BY <2>8, <2>11, <2>14
  <2> QED
    BY <2>3, <2>4, <2>9, <2>12, <2>13, <2>14
<1> QED
  BY <1>1, Invariance, PTL
=============================================================================
