CONSTANTS
    Peer = {p}
    Limit = 2
    Second = 2
    Cooldown = 1
    Window = 3
    Burst = 2
    Scenarios <- AppScenarios
SPECIFICATION Spec
INVARIANTS
    BadgeTrue
    WarningKept
    NothingUnread
    FeedTrue
    ErasedForGood
    Persists
    MeshAsAsked
    PostsSpaced
CHECK_DEADLOCK FALSE
