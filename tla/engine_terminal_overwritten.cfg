SPECIFICATION Spec
CONSTANTS
    Turns = {w1}
    Cancels = {c1}
    Tasks = {t1}
    NoTask = NoTask
    a1 = a1
    ArtifactIds = {a1}
    EventLogCapacity = 8
    Reports <- AuthReports
    MaxEvents = 2
    MaxCancelEvents = 0
    Disconnects = FALSE
    Pacing = "free"
PROPERTIES
    TerminalIsFinal
