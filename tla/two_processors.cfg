CONSTANTS
    e1 = e1  e2 = e2  c1 = c1
    Events = {e1, e2}
    Computers = {c1}
    NoEvent = NoEvent
    ComputerOf <- OneComputer
    Generation <- Generations
    ObservedAt <- Observations
    MaxAttempts = 2
    Workers = {w}
    Collectors = {m}
    MaxCrashes = 1
SPECIFICATION Spec
CHECK_DEADLOCK FALSE
INVARIANTS
    TypeOK
    ExclusiveUnlessLapsed
    SettledIsReflected
    DeadLetterEarned
PROPERTIES
    SettledIsFinal
