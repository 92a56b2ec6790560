SPECIFICATION Spec
CONSTANTS
    Threshold = 3
    SeenCapacity = 20
    Burst = 10
    SparseMax = 3
    DenseDegree = 6
    Refills = "never"
    HistoryMax = 10
    HistoryMs = 1
    Subscribers = {2, 3}
    Node = {1, 2, 3}
    Link = {12, 13, 23}
    UpAtStart = {12, 23}
    Ends <- TriangleEnds
    Times <- OneTime
    Ttl <- Ttl31
    TtlDense <- Ttl21
    Scenarios <- JoinScenarios
INVARIANTS
    ShownOnce
CHECK_DEADLOCK FALSE
