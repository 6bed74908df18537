SPECIFICATION Spec
CONSTANTS
  c1 = c1
  c2 = c2
  Cpus = {c1, c2}
  NumEvents = 1
  MaxAttach = 2
  MaxPending = 2
  MaxNest = 1
  Client = "GENERIC"
SYMMETRY CpuSymmetry
INVARIANTS
  TypeOK
  GuardWindow
  SampleReadsStableState
  SamplesOfThisAttachment
  NoSilentStop
  GuardStuckOnlyWithoutCounters
CHECK_DEADLOCK FALSE
