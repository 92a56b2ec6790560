SPECIFICATION Spec
CONSTANTS
    Threshold = 3
    SeenCapacity = 20
    Burst = 1
    SparseMax = 1
    DenseDegree = 6
    Refills = "maybe"
    HistoryMax = 1
    HistoryMs = 1
    Subscribers = {1, 2}
    Node = {1, 2, 3}
    Link = {12, 13, 23}
    UpAtStart = {12, 13, 23}
    Ends <- TriangleEnds
    Times <- Node2Behind
    Ttl <- Ttl31
    TtlDense <- Ttl21
    Scenarios <- FloodScenarios
INVARIANTS
    TypeOK
    ShownOnce
    OnlyFloodersGreylisted
    SeenMeansStored
CHECK_DEADLOCK FALSE
