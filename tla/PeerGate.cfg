SPECIFICATION Spec
CONSTANTS
    Endpoints = {e1}
    Evaluators = {v1, v2}
    Given <- MCGiven
    ContinuityTicks = {2}
    MaxLeases = 1
    LeaseDeadline = 1
    CleanupDeadline = 2
    MaxTick = 2
    TokenTicks = 1
    MaxRevision = 2
    MaxTokens = 2
SYMMETRY Symmetry
INVARIANTS
    HandlesStayOwned
    OneLiveToken
    AuthorityOwnsContinuity
    RefusalLeavesNothing
PROPERTIES
    GrantsAreCurrent
CHECK_DEADLOCK FALSE
