SPECIFICATION Spec
CONSTANTS
    Subject <- Watched
    Bodies = {"a"}
    Scopes <- TrailScopes
INVARIANTS ValidWasWritten   LossIsExplained
CHECK_DEADLOCK FALSE
