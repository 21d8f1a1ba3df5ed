SPECIFICATION Spec
CONSTANTS
    Steps = 1
    MaxIterations = 2
    AuditRepairs = 1
    ApprovalRequired = TRUE
    PublishEnabled = FALSE
    Verdicts = {"green", "red"}
    WallClock = TRUE
    StopPoints = {"outcome", "guard", "partial", "partial_end"}
    MaxStops = 1
INVARIANTS ResumeNeverRefused
