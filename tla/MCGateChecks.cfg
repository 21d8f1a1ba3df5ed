SPECIFICATION FairSpec
CONSTANTS
    Checks = 2
    Required <- MCBoth
    PerStep <- MCFast
    Preflighted <- MCBoth
    Blocking <- MCReports
    Junit <- MCReports
    BaseAnswers <- MCBase
    CaptureFaults = TRUE
    Attempts = 1
    Watched = 2
    MaxCandidates = 2
    MaxStops = 1
    MaxForeign = 1
INVARIANTS TypeOK NewFailuresBlock EvidenceIsExact AcceptedIsAnswered ChecksBounded
CHECK_DEADLOCK FALSE
PROPERTIES GateEnds
