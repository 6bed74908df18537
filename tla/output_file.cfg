SPECIFICATION FairSpec
CONSTANTS
  s1 = s1
  s2 = s2
  Streams = {s1, s2}
  BufSize = 3
  MaxSuffix = 2
  MaxBytes = 5
  Failures = {"first"}
PROPERTIES ImplementsLog CallReturns
CHECK_DEADLOCK FALSE
