SPECIFICATION Spec
CONSTANTS
  MaxTime = 3
  Unit = 2
  ProviderKey = "k"
  ProviderWindow = 5
  MaxHandoffs = 2
  MaxTick = 2
  Clients <- MCClients
  CustodyRequests <- MCCustodyRequests
  BrokerPins <- MCBrokerPins
  BrokerExpected <- MCBrokerExpected
  ConnectionBudget = 2
  TokenBudget = 2
  MaxTokens = 2
  PermissionSets <- MCPermissionSets
  HostStates <- MCHostStates
  Requests <- MCRequests
  Envelope <- MCEnvelope
  Trust <- MCTrust
  TransportBudget = 4
  HandoffBudget = 3
  AttestedFor = 3
  MaxFrames = 1
INVARIANTS
  OneDispatchPerAttempt
  OneOutcomePerToken
  ReleasedWithinEveryLease
