SPECIFICATION Spec
CONSTANTS
    Limits <- SampleLimits
    Inputs <- SampleInputs
    Mutations <- SampleMutations
    MaxMutations = 2
    Keys = {k1, k2}
    Values <- SampleValues
    Leaves <- SampleLeaves
    EmptyLeaf = e
    EmptyDepth = 1
    MaxDepth = 2
    MaxPosition = 4
    e = e
    x = x
    k1 = k1
    k2 = k2
INVARIANTS
    BudgetHolds
    
PROPERTIES
    FailedCallsChangeNothing
    
