SPECIFICATION Spec
CONSTANTS
    Signed = FALSE
    Window = 3
    Horizon = 5
    DiscoveryAttempts = 1
    Propagation = 1
    CallTime = 2
    StoreSink = FALSE
    MaxPostDeadline = 2
    Scenarios <- Disturbed
INVARIANTS
    TypeOK
    AbsenceTruthful
    NotAttemptedTruthful
    DispatchTruthful
    DurableRestorable
PROPERTIES
    ArmedBeforePush
    VerdictFinal
CHECK_DEADLOCK FALSE
