SPECIFICATION Spec
CONSTANTS
    None = None
    UsizeMax = 31
    U64Max = 600000
    MAX_TRACE_LEN = 16
    MIN_TRACE_LEN = 2
    CoreRowBytes = 4000
    Executions <- SampleExecutions
    Budgets <- SampleBudgets
    Workers = {p1, p2}
    Caller = p1
INVARIANTS
    StreamIsComplete
    SameAsBuffered
    TierOneIsPermissive
PROPERTY
    CallReturns
CHECK_DEADLOCK FALSE
