SPECIFICATION FairSpec
CONSTANTS
  NumCpus = 2
  Size = 32
  MaxHead = 64
INVARIANTS
  OldestSampleOnly
  NoShortRead
PROPERTY ParsingEnds
CHECK_DEADLOCK FALSE
