SPECIFICATION Spec
CONSTANTS
  s1 = s1
  s2 = s2
  Streams = {s1}
  BufSize = 4
  MaxSuffix = 0
  MaxBytes = 8
  Failures = {"first", "later"}
INVARIANT FileIntact
CHECK_DEADLOCK FALSE
