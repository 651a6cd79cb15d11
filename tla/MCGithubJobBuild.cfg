SPECIFICATION FairSpec
CONSTANTS
    Signed = FALSE
    Window = 1
    Horizon = 2
    DiscoveryAttempts = 1
    Scenarios <- OnlyAlone
    MaxPosts <- OneAndTwo
PROPERTY BuildEnds
CHECK_DEADLOCK FALSE
