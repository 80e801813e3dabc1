SPECIFICATION SubSpec
CONSTANTS
    Turns = {w1}
    Cancels = {}
    Tasks = {t1}
    NoTask = NoTask
    a1 = a1
    ArtifactIds = {a1}
    EventLogCapacity = 4
    Reports <- AuthReports
    MaxEvents = 2
    MaxCancelEvents = 0
    Disconnects = FALSE
    Subscribers = {s1}
    BusCapacity = 4
    MaxConnects = 2
    Pacing = "free"
INVARIANTS
    ResumeIsPrecise
