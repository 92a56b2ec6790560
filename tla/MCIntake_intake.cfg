SPECIFICATION Spec
CONSTANTS
    Size <- Sizes
    Sender <- Senders
    Packet = {1, 2, 3, 4, 5}
    Mtu = {6}
    FragHeader = 2
    MaxTotal = 5
    Slots = 2
    Timeout = 2
    MaxBytes = 12
    Scenarios <- IntakeScenarios
    SeenTtl = 4
    Burst = 1
    RefillTime = 2
    Greylist = 3
INVARIANTS
    TypeOK
    HandedWhole
    HandedWhenAllCame
    CountsMatch
    LookedAtOnce
    RateBound
    OnlyOverRateRefused
CHECK_DEADLOCK FALSE
