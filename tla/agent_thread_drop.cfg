SPECIFICATION FairSpec
CONSTANTS
  c1 = c1
  c2 = c2
  Cpus = {c1}
  NumEvents = 1
  MaxAttach = 1
  MaxPending = 1
  MaxNest = 1
  Client = "GENERIC"
PROPERTY DropLosesOnlyTheSample
CHECK_DEADLOCK FALSE
