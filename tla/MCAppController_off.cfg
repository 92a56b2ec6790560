CONSTANTS
    Peer = {p}
    Limit = 2
    Second = 2
    Cooldown = 1
    Window = 3
    Burst = 2
    Scenarios <- WipeScenarios
SPECIFICATION Spec
INVARIANTS
    OffMeansOff
CHECK_DEADLOCK FALSE
