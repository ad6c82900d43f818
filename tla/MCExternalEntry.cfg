SPECIFICATION Spec
CONSTANTS
    Programs <- ExternalEntryPrograms
    Forests <- SampleForests
    Library <- SampleLibrary
    EventAdvice <- SampleEvents
    kernel <- SampleKernel
    FragmentSizes = {20}
    MIN_STACK_DEPTH = 3
    MaxStackDepth = 6
    MaxCycles = 60
    MaxContinuations = 100
    MaxMemory = 3
    MaxAdvice = 7
INVARIANT
    TraceMatchesReference
