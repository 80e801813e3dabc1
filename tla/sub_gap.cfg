SPECIFICATION SubSpec
CONSTANTS
    Turns = {w1}
    Cancels = {c1}
    Tasks = {t1}
    NoTask = NoTask
    a1 = a1
    ArtifactIds = {a1}
    EventLogCapacity = 8
    Reports <- ProgressReports
    MaxEvents = 2
    MaxCancelEvents = 1
    Disconnects = FALSE
    Subscribers = {s1}
    BusCapacity = 8
    MaxConnects = 1
    Pacing = "free"
INVARIANTS
    NoGap
