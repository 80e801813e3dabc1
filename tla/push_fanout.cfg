SPECIFICATION FairSpec
CONSTANTS
    ConfigIds = {k1, k2}
    Writers = {w1, c1}
    Handlers = {c1}
    MaxDeliveryAttempts = 3
    SsrfProtection = TRUE
    MaxRegistrations = 2
    MaxUpdates = 2
CHECK_DEADLOCK FALSE
INVARIANTS
    NoUpdateMissed
    RetiredStaysSilent
    OutcomeIsEarned
PROPERTIES
    LastUpdateIsPosted
