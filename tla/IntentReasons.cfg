SPECIFICATION Spec
CONSTANTS
  TrustedOrigins <- MCTrustedOrigins
  TrustedAuthorities <- MCTrustedAuthorities
  WipLimit = 2
  Stewards = {"s1"}
  Scenarios <- ReasonScenarios
  Goals <- ReasonGoals
  Roadmaps <- OtherReasons
  Commitments <- MCCommitments
  Transitions <- MCTransitions
  Workstreams <- MCWorkstreams
  Works <- MCWorks
  LegacyEvents <- MCLegacyEvents
  Loci = {"agent", "user"}
  Terms <- MCTerms
PROPERTY OrdersServeLiveGoals
CHECK_DEADLOCK FALSE
