SPECIFICATION FairSpec
CONSTANTS
    Signed = FALSE
    Window = 3
    Horizon = 8
    DiscoveryAttempts = 1
    Propagation = 1
    CallTime = 2
    StoreSink = FALSE
    MaxPostDeadline = 3
    Scenarios <- Undisturbed
PROPERTY SubmissionSettles
CHECK_DEADLOCK FALSE
