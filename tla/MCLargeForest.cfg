SPECIFICATION Spec
CONSTANTS
    l1 = l1
    l2 = l2
    k1 = k1
    k2 = k2
    k3 = k3
    k4 = k4
    v = v
    w = w
    EmptyWord = EmptyWord
    Lineages = {l1, l2}
    Keys = {k1, k2, k3, k4}
    Values = {v, w}
    Depth = 2
    Leaf <- MCLeaf
    Versions = {0, 1, 2, 3}
    MaxVersions = 2
    Batches <- MCBatches
    MaxPrepared = 1
INVARIANTS
    QueriesAreExact
    ForestAgreesWithBackend
PROPERTIES
    ImplementsSnapshots
