SPECIFICATION FairSpec
CONSTANTS
    Ids <- FourIds
    Hidden <- TwoHidden
    MaxStorePages = 2
    PageSizes <- OneOrTwo
    MaxTime = 2
    MaxWrites = 2
INVARIANTS
    TypeOK
    NothingUndisturbedMissed
    ListedOnceInOrder
PROPERTIES
    WalkEnds
