CONSTANTS
    copied = copied  report = report  alarm = alarm
    Events = {e1, e2}
    OtherMail = {copied, report}
    OtherHeader <- HeaderOf
    Sources <- InboxOnly
    Archived = {}
    MaxPerRun = 2
    MaxFaults = 1
    NoCopy = NoCopy
    NoEvent = NoEvent
    SmtpEnabled = TRUE
    MaxBatch = 1
    MaxLocal = 1
SPECIFICATION FairSpec
CHECK_DEADLOCK FALSE
INVARIANTS
    TypeOK
    HandedIsKept
    FiledAsMeant
PROPERTIES
    MailIsKept
    HandedIsStored
    LocalQueueDrains
