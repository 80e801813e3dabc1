SPECIFICATION FairSubSpec
CONSTANTS
    Turns = {w1}
    Cancels = {}
    Tasks = {t1}
    NoTask = NoTask
    a1 = a1
    ArtifactIds = {a1}
    EventLogCapacity = 4
    Reports <- AuthReports
    MaxEvents = 3
    MaxCancelEvents = 0
    Disconnects = FALSE
    Subscribers = {s1}
    BusCapacity = 3
    MaxConnects = 3
    Pacing = "free"
INVARIANTS
    NoEventTwice
    ResumedCatchesUp
    AttachedSeesClose
PROPERTIES
    StreamsEnd
