--------------------------- MODULE MCLargeForest ---------------------------
(***************************************************************************)
(* A forest of two lineages.  Keys k1 and k2 share a leaf, k3 is in the    *)
(* sibling leaf and k4 under the other child of the root.                  *)
(***************************************************************************)
EXTENDS LargeForest

CONSTANTS l1, l2, k1, k2, k3, k4, v, w

MCLeaf == [k \in Keys |-> CASE k = k1 -> 0 [] k = k2 -> 0 [] k = k3 -> 1 [] k = k4 -> 2]

\* Insertions, replacements and removals, of single keys and of several in one
\* leaf, a repeated key, an empty update and updates of both lineages.
Set(l, k, x) == [i \in {l} |-> <<<<k, x>>>>]
MCBatches ==
    {Set(l1, k1, v), Set(l2, k4, v),
     [l \in {l1, l2} |-> IF l = l1 THEN <<<<k2, v>>, <<k3, v>>, <<k2, w>>>> ELSE <<>>],
     [l \in {l1, l2} |-> <<<<k1, EmptyWord>>, <<k2, EmptyWord>>, <<k4, w>>>>]}
=============================================================================
