SPECIFICATION FairSpec
CONSTANTS
  Consumers = {c1}
  Starters = {t1}
  Callers = {t2}
  Scenarios <- MCScenarios
  Facts <- MCFacts
  Life = 2
  Improvement <- MCImprovement
  Cost <- MCCost
  CostWeight = 2
  MinimumNet = 0
  Units <- MCUnits
  Ceiling <- MCCeiling
INVARIANTS EpochInv ForegroundWins
PROPERTIES Replayable ScansSettle
CHECK_DEADLOCK FALSE
