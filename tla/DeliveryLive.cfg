SPECIFICATION FairSpec
CONSTANTS
  MaxEvents = 2
  Publishers = {p1, p2}
  Consumers = {c1, c2}
  BatchSize = 2
  MaxFaults = 1
  StoreMayFail = FALSE
PROPERTIES ImplementsTransfer EventuallyQuiet
CHECK_DEADLOCK FALSE
