SPECIFICATION FairClientSpec
CONSTANTS
    Turns = {w1, w2}
    Cancels = {}
    Tasks = {t1}
    NoTask = NoTask
    a1 = a1
    ArtifactIds = {a1}
    EventLogCapacity = 8
    Reports <- ChatReports
    MaxEvents = 2
    MaxCancelEvents = 0
    Disconnects = FALSE
    BusCapacity = 2
    Modes = {"blocking", "immediate", "stream"}
    Pacing = "answered"
INVARIANTS
    StreamIsInOrder
    StreamDeliversOutcome
    BlockingReturnsFinal
    FailureMeansNoTask
    HistoryHasNoDuplicates
    RegistriesDrain
PROPERTIES
    CallsReturn
