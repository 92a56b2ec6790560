SPECIFICATION Spec
CONSTANTS
    Node = {a, b}
    a = a
    b = b
    MaxLinks = 5
    MaxRetry = 1
    Scenarios <- LinkScenarios
SYMMETRY Alike
INVARIANTS
    MapsAgree
    OneLinkPerPeer
PROPERTIES
    ClosesOnlyRedundant
CHECK_DEADLOCK FALSE
