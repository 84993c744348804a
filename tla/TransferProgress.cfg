SPECIFICATION FairSpec
CONSTANTS
  t1 = t1
  t2 = t2
  Tasks = {t1, t2}
  Uploads = {}
  Existing = {t1}
  Size = 1
  Limit = 1
  Backlog = 2
  Callers = {"center"}
  Calls = {"cancel", "pause", "resume", "retry"}
  Decisions = {"replace"}
  Faults = {"credential", "io", "source", "threads"}
PROPERTIES
  CancelSettles
  QueuedIsTaken
\* Nothing runs once every transfer is over and the user does nothing.
CHECK_DEADLOCK FALSE
