SPECIFICATION Spec
CONSTANTS
    StepAttempts = 1
    MaxChain = 2
    MaxMoves = 0
    MaxLaunches = 2
INVARIANTS OnlyTheWorldStops
CHECK_DEADLOCK FALSE
