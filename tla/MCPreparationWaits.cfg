SPECIFICATION Spec
CONSTANTS
    Attempts = 2
    Continuation = FALSE
    Answers = {"ready", "invalid"}
    Horizon = 14
    Durations = {0, 3}
    Hints = {1, 5}
    MinUseful = 2
    FirstDelay = 4
    LastDelay = 8
    MaxResumes = 2
    Gates = {TRUE, FALSE}
    Tomls = 1
    Issues = {FALSE}
    MaxFaults = 0
INVARIANTS WaitsForTheWorld
CHECK_DEADLOCK FALSE
