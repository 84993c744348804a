SPECIFICATION Spec
CONSTANTS
    MaxRuns = 2
    MaxGeneration = 3
    MaxAttempts = 1
    MaxOutput = 0
    MaxInputs = 0
    MaxViews = 0
    QueueLimit = 1
    Retain = FALSE
    Synchronized = FALSE
    Failures = {"lost"}
INVARIANTS RetriesBounded
CHECK_DEADLOCK FALSE
