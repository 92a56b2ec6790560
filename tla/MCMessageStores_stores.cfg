SPECIFICATION Spec
CONSTANTS
    Msg = {1, 2, 5}
    Stamp <- Stamps
    Peer = {p1, p2}
    p1 = p1
    p2 = p2
    HistoryMax = 2
    HistoryMs = 10
    EnvelopeTtl = 2
    EnvelopeMax = 2
    MaxTime = 2
    Scenarios <- StoreScenarios
INVARIANTS
    TypeOK
    NewestRowsKept
    EnvelopesHeld
    StoresAgree
CHECK_DEADLOCK FALSE
