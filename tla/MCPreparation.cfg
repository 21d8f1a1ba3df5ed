SPECIFICATION FairSpec
CONSTANTS
    Attempts = 2
    Continuation = TRUE
    Answers = {"ready", "blocked", "invalid", "unsafe"}
    Horizon = 14
    Durations = {0, 3}
    Hints = {1, 5}
    MinUseful = 2
    FirstDelay = 4
    LastDelay = 8
    MaxResumes = 4
    Gates = {TRUE, FALSE}
    Tomls = 2
    Issues = {TRUE, FALSE}
    MaxFaults = 2
INVARIANTS TypeOK AnswersBounded TriesHaveRoom PreparedAsBound
PROPERTIES PaidOnce DriverLeaves
CHECK_DEADLOCK FALSE
