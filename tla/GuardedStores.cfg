SPECIFICATION Spec
CONSTANTS
  p1 = p1
  p2 = p2
  Principals = {p1, p2}
  RequestIds = {i1, i2}
  Heads <- MCHeads
  FirstHead <- MCFirstHead
  WitnessPolicies <- MCWitnessPolicies
  FirstPolicy <- MCFirstPolicy
  Lifetime = 1
  MaxReceipts = 2
  Bundles <- MCBundles
  PolicyInputs <- MCPolicyInputs
  FirstInputs <- MCFirstInputs
  MaxIngestions = 3
  Intents <- MCIntents
  BaseHead <- MCBaseHead
  Authorities <- MCAuthorities
  EvidenceLifetime = 1
  MaxUpdateEvents = 7
  Hosts = {h1, h2}
  Descriptors <- MCDescriptors
  Anchor <- MCAnchor
  LeaseLifetime = 2
  IdentityLifetime = 1
  Payloads <- MCPayloads
  MaxAuthorizations = 5
  MaxTime = 2
SYMMETRY Interchangeable
INVARIANTS
  EveryStoreLoads
  RollbackExposed
  FrontierIsWitnessable
  CommitsFormAChain
  BarredKeysCommitNothing
  RevocationIsFinal
PROPERTY
  AnswersAreTrue
