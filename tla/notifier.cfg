CONSTANTS
    daemon = daemon  collector = collector
    computer = computer  change = change  processing = processing  queue = queue  imap = imap  h1 = h1  h2 = h2
    Processes = {daemon, collector}
    ReportKeys = {computer, change}
    Contents = {h1, h2}
    IncidentKeys = {processing, queue, imap}
    Duties <- AllDuties
    Caught <- CaughtErrors
    NoRow = NoRow
    NoTask = NoTask
    NoContent = NoContent
    FaultKinds = {"smtp_down", "smtp_lost", "database", "crash"}
    MaxFaults = 1
SPECIFICATION FairSpec
INVARIANTS
    TypeOK
    SentIsMailed
    ReservationIsHeld
    ReportsOnChange
    OwedIsMailed
    IncidentsSpaced
    RecoveryFollowsIncident
PROPERTIES
    IncidentsRecover
