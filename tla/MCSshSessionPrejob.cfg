CONSTANTS
    StartEvents = 1
    ArtifactEvents = 1
    Scenarios <- OneFault
SPECIFICATION Spec
CHECK_DEADLOCK FALSE
INVARIANT ServerErrorsUnderstood
