SPECIFICATION Spec
CONSTANTS
  build = build
  verify = verify
  Coordinators = {c1, c2}
  Agents = {a1, a2}
  Nodes <- TwoNodes
  None = None
  Predecessors <- VerifyAfterBuild
  VerificationOf <- VerifyAfterBuild
  Capacity = 1
  LeaseDuration = 1
  PresenceHorizon = 3
  Commands = {"assign", "complete", "expire", "invalidate", "trigger"}
  Reports = {"rejected", "late"}
  MaxTime = 3
  Planned = TRUE
  MaxLog = 9
SYMMETRY CoordinatorSymmetry
INVARIANTS DependenciesFirst VerifierIsIndependent
PROPERTIES ImplementsOwnership
CHECK_DEADLOCK FALSE
