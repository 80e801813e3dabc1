SPECIFICATION Spec
CONSTANTS
    Turns = {w1, w2}
    Cancels = {c1}
    Tasks = {t1}
    NoTask = NoTask
    a1 = a1
    ArtifactIds = {a1}
    EventLogCapacity = 8
    Reports <- ChatReports
    MaxEvents = 1
    MaxCancelEvents = 0
    Disconnects = FALSE
    Pacing = "answered"
PROPERTIES
    CancelSignalsRunningTurn
