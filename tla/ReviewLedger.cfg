SPECIFICATION LedgerSpec
CONSTANTS
    e1 = e1
    e2 = e2
    e3 = e3
    Reviewers = {a1}
    AllowedReviewers = {a1}
    ReviewIds = {r1, r2, r3}
    NoId = NoId
    ReleaseIds = {x1, x2}
    Payloads = {p1}
    Evidence = {e1, e2, e3}
    DocumentOf <- MCDocumentOf
    VersionOf <- MCVersionOf
    BodyOf <- MCBodyOf
    CaptureAt <- MCCaptureAt
    Times = {1, 2}
SYMMETRY Symmetry
INVARIANTS
    StoreLoads
    LinearReviewChain
    ReleasedUnderStandingApproval
    ReplyMatchesStore
PROPERTIES
    NoReleaseAfterRevocation
