SPECIFICATION FairSpec
CONSTANTS
    Steps = 3
    DependsOn <- MCChain
    Contents <- MCContents
    Attempts = 3
    Fallbacks = 1
    Strict = TRUE
    PerStepGate = TRUE
    MaxResumes = 1
INVARIANTS TypeOK CallsBounded EscalationReached CommitsAreClean CallsStartClean DependenciesHold
PROPERTIES DriverLeaves
