CONSTANTS
    e1 = e1  e2 = e2  e3 = e3  e4 = e4  e5 = e5  u = u  v = v  c1 = c1
    Events = {e1, e2, e3, e4, e5}
    Computers = {c1}
    Processors = {w}
    Users = {u, v}
    NoUser = NoUser
    NoRow = NoRow
    NoEvent = NoEvent
    ComputerOf <- OneComputer
    Proposed <- Proposals
    ObservedAt <- Times
    Rank <- Times
    RequiredEvents = 3
    RequiredAge = 2
    Window = 3
    MaxAttempts = 2
    MaxCrashes = 0
SPECIFICATION Spec
CHECK_DEADLOCK FALSE
INVARIANTS
    ConfirmsOnDistinctEvents
