SPECIFICATION Spec
CONSTANTS
  p = p
  Intents <- MCIntents
  BaseHead <- MCBaseHead
  Authorities <- MCAuthorities
  EvidenceLifetime = 2
  MaxUpdateEvents = 2
  Clients = {p}
  RequestIds = {i1, i2}
  AuthorityPolicies <- MCAuthorityPolicies
  FirstAuthorityPolicy <- MCFirstAuthorityPolicy
  RequestLifetime = 1
  FirstUntil = 2
  MaxAcceptances = 2
  MaxTime = 1
SYMMETRY RequestNames
INVARIANTS
  RefusedForTimeOnly
PROPERTIES
  AcceptedOnlyGrows
  RepeatsMakeNothing
