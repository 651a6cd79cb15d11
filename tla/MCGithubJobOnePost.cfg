SPECIFICATION Spec
CONSTANTS
    Signed = FALSE
    Window = 1
    Horizon = 2
    DiscoveryAttempts = 1
    Scenarios <- OnlyAlone
    MaxPosts <- Two
INVARIANT OnePost
CHECK_DEADLOCK FALSE
