CONSTANTS
    e1 = e1  e2 = e2  e3 = e3  u = u  v = v  unknown = unknown
    office = office
    Processors = {daemon, collector}
    Events = {e1, e2, e3}
    Users = {u, v, unknown}
    AssetIds = {i1, i2}
    Places = {office}
    NumericId <- Numbers
    NoUser = NoUser
    NoEvent = NoEvent
    NoId = NoId
    Absent = Absent
    Proposed <- Proposals
    Unique = {u, v}
    MaxShared = 1
    MaxFaults = 1
    MaxEdits = 1
    MaxCrashes = 1
SPECIFICATION Spec
SYMMETRY Alike
CHECK_DEADLOCK FALSE
INVARIANTS
    TypeOK
    OneAssetUnlessRaced
    FreedIsGivenOn
PROPERTIES
    AppliedAsReported
