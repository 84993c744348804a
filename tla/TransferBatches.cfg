SPECIFICATION Spec
CONSTANTS
  b1 = b1
  Size = 1
  Batches = {b1}
  Files = 2
  Existing = {1}
  Limit = 1
  Calls = {"cancel", "pause", "resume", "retry", "dismiss", "decide", "child", "pauseAll", "resumeAll", "cancelAll", "clear", "quit"}
  Faults = {"plan", "reject", "io", "crash"}
INVARIANTS EntriesMirrorTasks CompletedMeansSettled
PROPERTIES DismissLeavesNothing CancelledPlanQueuesNothing PauseAllHolds
CHECK_DEADLOCK FALSE
