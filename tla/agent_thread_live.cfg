SPECIFICATION FairSpec
CONSTANTS
  c1 = c1
  c2 = c2
  Cpus = {c1, c2}
  NumEvents = 1
  MaxAttach = 1
  MaxPending = 2
  MaxNest = 1
  Client = "DATACENTRIC"
PROPERTIES
  RestartedOrDropped
  GuardReleased
CHECK_DEADLOCK FALSE
