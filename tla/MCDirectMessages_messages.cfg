SPECIFICATION Spec
CONSTANTS
    Node = {1, 2}
    Text = {t1, t2}
    t1 = t1
    t2 = t2
    MaxAttempts = 2
    ResyncThreshold = 2
    InboundCap = 2
    EnvelopeCap = 1
    Scenarios <- MessageScenarios
SYMMETRY SymText
INVARIANTS
    TypeOK
    Agreement
    AtMostOnce
    NonceUsedOnce
    FirstTextKept
    ConfirmedIsVerified
    HeldOnlyWhileAway
PROPERTIES
    SessionSurvives
    UserOwnsTrust
    LoudKeyChange
