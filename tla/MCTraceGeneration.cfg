SPECIFICATION Spec
CONSTANTS
    Programs <- GridPrograms
    Forests <- SampleForests
    Library <- SampleLibrary
    EventAdvice <- SampleEvents
    kernel <- SampleKernel
    FragmentSizes = {1, 2, 5}
    MIN_STACK_DEPTH = 3
    MaxStackDepth = 6
    MaxCycles = 60
    MaxContinuations = 100
    MaxMemory = 3
    MaxAdvice = 7
INVARIANTS
    ExecutionMatchesReference
    TraceMatchesReference
    RecordsConsumed
    SavedContextsAgree
    BlockStackMatchesContinuations
