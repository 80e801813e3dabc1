SPECIFICATION FairSpec
CONSTANTS
    Turns = {w1}
    Cancels = {c1}
    Tasks = {t1}
    NoTask = NoTask
    a1 = a1
    ArtifactIds = {a1}
    EventLogCapacity = 4
    Reports <- AuthReports
    MaxEvents = 2
    MaxCancelEvents = 1
    Disconnects = TRUE
    Pacing = "free"
INVARIANTS
    TypeOK
    SeqNamesOneEvent
    LoggedBeforeSent
    LogIsWindow
    NothingAfterClose
    CancelLeavesTerminalEvent
PROPERTIES
    CallsEnd
