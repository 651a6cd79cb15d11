SPECIFICATION Spec
CONSTANTS
    Signed = FALSE
    Window = 1
    Horizon = 2
    DiscoveryAttempts = 1
    Scenarios <- BesideAndAfter
    MaxPosts <- OneAndTwo
INVARIANTS
    TypeOK
    DurableRestorable
    RefOutlivesRun
    OutcomeTruthful
    DispatchTruthful
    CleanupRecordable
    OneSessionPost
PROPERTY IntentBeforePost
CHECK_DEADLOCK FALSE
