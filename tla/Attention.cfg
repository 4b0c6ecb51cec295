CONSTANTS
    w1 = w1
    w2 = w2
    o1 = o1
    o2 = o2
    c1 = c1
    i1 = i1
    i2 = i2
    i3 = i3
    Workers = {w1, w2}
    Observers = {o1, o2}
    Clients = {c1}
    Consumer <- MCConsumer
    SourcePolicy <- MCSourcePolicy
    Terms <- MCTerms
    Scenarios <- MCScenarios

SPECIFICATION FairSpec
CHECK_DEADLOCK FALSE

INVARIANTS ObservationInv GovernanceInv
PROPERTIES Replayable EverythingIsObserved
