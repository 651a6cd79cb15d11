CONSTANTS
    StartEvents = 1
    ArtifactEvents = 1
    Scenarios <- TwoAccidents
SPECIFICATION Spec
CHECK_DEADLOCK FALSE
INVARIANTS
    TypeOK
    AcknowledgedIsPublished
    RetentionTold
    
    
PROPERTIES
    SuccessProven
    SessionSettles
