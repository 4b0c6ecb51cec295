SPECIFICATION Spec
CONSTANTS
  build = build
  verify = verify
  Coordinators = {c1}
  Agents = {a1, a2}
  Nodes <- TwoNodes
  None = None
  Predecessors <- VerifyAfterBuild
  VerificationOf <- VerifyAfterBuild
  Capacity = 1
  LeaseDuration = 1
  PresenceHorizon = 3
  Commands = {"plan", "assign", "complete", "expire", "invalidate", "presence", "trigger"}
  Reports = {}
  MaxTime = 2
  Planned = TRUE
  MaxLog = 9
SYMMETRY CoordinatorSymmetry
INVARIANTS TypeOK Replayable CapacityIsKept
CHECK_DEADLOCK FALSE
