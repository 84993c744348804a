SPECIFICATION Spec
CONSTANTS
    MaxRuns = 2
    MaxGeneration = 2
    MaxAttempts = 1
    MaxOutput = 1
    MaxInputs = 1
    MaxViews = 1
    QueueLimit = 1
    Retain = TRUE
    Synchronized = TRUE
    Failures = {"lost", "credential", "import"}
INVARIANTS LastOutputIsShown InputIsNotReplayed
PROPERTIES StaleEventsChangeNothing
CHECK_DEADLOCK FALSE
