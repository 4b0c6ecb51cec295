SPECIFICATION Spec
CONSTANTS
  TrustedOrigins <- MCTrustedOrigins
  TrustedAuthorities <- MCTrustedAuthorities
  WipLimit = 2
  Stewards = {"s1", "s2"}
  Scenarios <- MCScenarios
  Goals <- MCGoals
  Roadmaps <- MCRoadmaps
  Commitments <- MCCommitments
  Transitions <- MCTransitions
  Workstreams <- MCWorkstreams
  Works <- MCWorks
  LegacyEvents <- MCLegacyEvents
  Loci = {"agent", "user"}
  Terms <- MCTerms
INVARIANTS IntentInv
PROPERTIES NothingIsRebased WorkServesCurrentIntent CoverageIsEarned
CHECK_DEADLOCK FALSE
