SPECIFICATION FairSpec
CONSTANTS
  Kernels = {k1, k2}
  Events = {e1, e2}
  NoEvent = NoEvent
  Admissions = {e2}
  Poison = {}
  MaxSequence = 3
  MaxCrashes = 2
  QuietStart = TRUE
INVARIANTS ProjectionInv AdmissionIsAtomic
PROPERTIES Convergence
CHECK_DEADLOCK FALSE
