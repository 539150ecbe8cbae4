CONSTANTS
    copied = copied  report = report  alarm = alarm
    Events = {e1, e2}
    OtherMail = {copied, alarm}
    OtherHeader <- HeaderOf
    Sources <- ExampleFolders
    Archived = {"Errors", "Reports"}
    MaxPerRun = 2
    MaxFaults = 1
    NoCopy = NoCopy
    NoEvent = NoEvent
    SmtpEnabled = TRUE
    MaxBatch = 1
    MaxLocal = 1
SPECIFICATION Spec
CHECK_DEADLOCK FALSE
PROPERTY ErrorsKept
