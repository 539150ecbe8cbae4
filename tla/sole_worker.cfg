CONSTANTS
    e1 = e1  e2 = e2  c1 = c1
    Events = {e1, e2}
    Computers = {c1}
    NoEvent = NoEvent
    ComputerOf <- OneComputer
    Generation <- Generations
    ObservedAt <- Observations
    MaxAttempts = 2
    Workers = {w}
    Collectors = {}
    MaxCrashes = 2
SPECIFICATION FairSpec
CHECK_DEADLOCK FALSE
INVARIANTS
    FinishedIsCurrent
PROPERTIES
    KeepsPromise
    EveryEventSettles
