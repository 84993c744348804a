SPECIFICATION Spec
CONSTANTS
  t1 = t1
  t2 = t2
  Tasks = {t1, t2}
  Uploads = {t2}
  Existing = {t1}
  Size = 1
  Limit = 1
  Backlog = 2
  Callers = {"center"}
  Calls = {"cancel", "pause", "resume", "retry", "dismiss", "shutdown"}
  Decisions = {"skip", "cancel"}
  Faults = {"credential", "io", "threads", "crash"}
INVARIANTS
  ThreadMatchesStatus
  SlotLimit
  WorkConserving
PROPERTIES
  ImplementsLifecycle
\* Nothing runs once every transfer is over and the user does nothing.
CHECK_DEADLOCK FALSE
