SPECIFICATION Spec
CONSTANTS
    Signed = FALSE
    Window = 3
    Horizon = 5
    DiscoveryAttempts = 1
    Propagation = 1
    CallTime = 2
    StoreSink = TRUE
    MaxPostDeadline = 2
    Scenarios <- Undisturbed
INVARIANT PreparedIsDurable
CHECK_DEADLOCK FALSE
