SPECIFICATION JournalSpec
CONSTANTS
    Reviewers = {a1}
    AllowedReviewers = {a1}
    ReviewIds = {r1, r2}
    NoId = NoId
    ReleaseIds = {x1}
    Payloads = {c1}
    Evidence = {e1}
    DocumentOf <- MCDocumentOf
    VersionOf <- MCVersionOf
    BodyOf <- MCBodyOf
    CaptureAt <- MCCaptureAt
    Times = {1, 2}
    Operations = {o1}
    Principals = {p1}
    Workers = {w1}
    NoWorker = NoWorker
    Processes = {q1, q2}
    Configs = {c1}
    ConfigEvidence <- MCConfigEvidence
    Replayable = {c1}
    ObservedAt <- MCObservedLate
    NoEvidence = NoEvidence
    MaxGeneration = 2
SYMMETRY Symmetry
INVARIANTS
    JournalTypeOK
    JournalLoads
    PreparedIsAdmissible
    ReleasedUnderRegisteredHead
PROPERTIES
    OvertakenWritesNothing
    ImplementsReleaseGate
