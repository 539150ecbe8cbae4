CONSTANTS
    daemon = daemon  collector = collector
    computer = computer  change = change  processing = processing  queue = queue  imap = imap  h1 = h1  h2 = h2
    Processes = {daemon}
    ReportKeys = {computer}
    Contents = {h1, h2}
    IncidentKeys = {processing}
    Duties <- EventDuties
    Caught = {}
    NoRow = NoRow
    NoTask = NoTask
    NoContent = NoContent
    FaultKinds = {}
    MaxFaults = 1
SPECIFICATION Spec
INVARIANTS
    DeadLetterAnnounced
