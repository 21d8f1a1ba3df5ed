SPECIFICATION FairSpec
CONSTANTS
    Steps = 1
    MaxIterations = 2
    AuditRepairs = 1
    ApprovalRequired = TRUE
    PublishEnabled = TRUE
    Verdicts = {"green", "red", "hard"}
    WallClock = TRUE
    StopPoints <- MCEverywhere
    MaxStops = 1
INVARIANTS PublishedIsJudged StopsAreResumable PartialIsAccepted CommitsInOrder MilestonesKept
PROPERTIES OneAnswer DriverLeaves
