SPECIFICATION Spec
CONSTANTS
  Scenarios <- MCScenarios
  Facts <- MCFacts
  Feed <- MCFeed
  Connected = {1, 2, 3}
  Hazard <- MCHazard
  RefreshCost <- MCRefreshCost
  Demanded = {1, 2, 3}
  Importance <- MCImportance
  Floor = 2
  Required = 2
  Full = 2
  Budgets <- MCBudgets
INVARIANTS WakeInv NothingIsSkipped BeliefInv
PROPERTIES Replayable
CHECK_DEADLOCK FALSE
