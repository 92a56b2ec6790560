SPECIFICATION FairSpec
CONSTANTS
    Threshold = 3
    SeenCapacity = 1
    Burst = 1
    SparseMax = 3
    DenseDegree = 6
    Refills = "always"
    HistoryMax = 10
    HistoryMs = 1
    Subscribers = {3, 4}
    Node = {1, 2, 3, 4}
    Link = {12, 13, 23, 34}
    UpAtStart = {12, 13, 23}
    Ends <- KiteEnds
    Times <- OneTime
    Ttl <- Ttl31
    TtlDense <- Ttl21
    Scenarios <- SpreadScenarios
PROPERTIES
    Spreads
    FloodDies
CHECK_DEADLOCK FALSE
