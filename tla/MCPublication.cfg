SPECIFICATION FairSpec
CONSTANTS
    StepAttempts = 1
    MaxChain = 3
    MaxMoves = 2
    MaxLaunches = 3
INVARIANTS PublishedArrived LastRequest StoppedByTheWorld
PROPERTIES OthersKept DriverLeaves
CHECK_DEADLOCK FALSE
