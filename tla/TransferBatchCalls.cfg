SPECIFICATION Spec
CONSTANTS
  t1 = t1
  Tasks = {t1}
  Uploads = {t1}
  Existing = {t1}
  Size = 1
  Limit = 1
  Backlog = 2
  Callers = {"center", "batch"}
  Calls = {"cancel", "pause", "resume", "retry", "dismiss", "shutdown"}
  Decisions = {"skip", "replace", "cancel"}
  Faults = {"credential", "io", "source", "threads", "crash"}
INVARIANTS
  TypeOK
  QueuedHasWork
  JournalCurrent
PROPERTIES
  FinishedStays
  OverwriteDecided
  CompletedMeansDelivered
\* Nothing runs once every transfer is over and the user does nothing.
CHECK_DEADLOCK FALSE
