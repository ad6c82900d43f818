SPECIFICATION Spec
CONSTANTS
    Felt = {0, 1}
    Zero = 0
    MIN_STACK_DEPTH = 3
    INITIAL_STACK_TOP_IDX = 4
    INITIAL_STACK_BUFFER_SIZE = 6
    MaxStackDepth = 6
    MaxContexts = 2
INVARIANTS
    LiveStackInBuffer
    BelowBottomIsZero
    AggregateDepthBounded
    AllocationCapped
PROPERTIES
    SwitchConservesDepth
    ImplementsOperandStack
CHECK_DEADLOCK FALSE
