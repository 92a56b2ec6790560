SPECIFICATION Spec
CONSTANTS
    Node = {a, b}
    a = a
    b = b
    MaxLinks = 5
    MaxRetry = 1
    Scenarios <- BothScenarios
SYMMETRY Alike
INVARIANTS
    KeepsALink
CHECK_DEADLOCK FALSE
