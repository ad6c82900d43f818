SPECIFICATION FairSpec
CONSTANTS
    Programs <- GridPrograms
    Forests <- SampleForests
    Library <- SampleLibrary
    EventAdvice <- SampleEvents
    kernel <- SampleKernel
    MIN_STACK_DEPTH = 3
    MaxStackDepth = 6
    MaxCycles = 60
    MaxContinuations = 6
    MaxMemory = 3
    MaxAdvice = 7
INVARIANTS
    StopEncodesNextStep
    SteppingEndsLikeExecution
    OneCyclePerStep
    ResumeContextIsCurrent
PROPERTIES
    ContextsAreFresh
    SteppingTerminates
