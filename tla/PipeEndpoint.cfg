SPECIFICATION Spec
CONSTANTS
    Operations = {o1, o2}
    NoOperation = none
    Plans <- MCPlans
    MaxEvents = 7
    MaxOperations = 2
    MaxIterations = 2
    MaxTick = 4
INVARIANTS
    KernelMemoryHeld
    LedgerIsTrue
PROPERTIES
    NoLateResult
    CallsEnd
CHECK_DEADLOCK FALSE
