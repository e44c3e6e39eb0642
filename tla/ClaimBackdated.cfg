SPECIFICATION Spec
CONSTANTS
    s = s
    x = x
    Assertions = {a1}
    Ids = {1, 2, 3}
    Times = {1, 2, 3}
    Proposable = {"first_reported", "repeated", "qualified"}
    Spans = {s}
    Cutoff = 1
    EvidenceLists <- MCEvidenceLists
    MaxTransitions = 3
INVARIANTS
    EarlierStateStands
