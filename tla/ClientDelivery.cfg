SPECIFICATION DeliverySpec
CONSTANTS
    e1 = e1
    e2 = e2
    e3 = e3
    f2 = f2
    Operations = {o1, o2, o3}
    Requests = {c1}
    Envelopes = {e1, e2, f2, e3}
    RevisionOf <- MCRevisionOf
    PreviousOf <- MCPreviousOf
    Anchor = e1
    AnchorTime = 1
    MaxReceipts = 2
    Times = {1, 2, 3}
    Responses <- MCResponses
    Processes = {q1}
    WindowOf <- MCWindowOf
    MaxOperations = 3
    Steady = FALSE
SYMMETRY Symmetry
INVARIANTS
    StoresLoad
PROPERTIES
    ImplementsChain
