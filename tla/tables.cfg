CONSTANTS
  Keys <- MCKeys
  Data = {a, b}
  Addr <- MCAddr
  Calls <- MCCalls
  Values = {1}
  MaxContexts = 4
  MaxMetrics = 2
  MaxTotal = 2
  MaxBci = 3
  MaxEntries = 3
  MaxMap = 2
  CodeSize = 4
  Threads = {t1, t2}
  NoOwner = NoOwner
  Maps <- MCMaps
  MAX_BLACK_LIST_ADDRESS = 2
  PageSize = 1
  Masked = {5}
  MaxAddr = 6
SPECIFICATION MCSpec
INVARIANTS HoldsWhatWasInserted LookupFindsCover InsideIsAll DumpTellsTotals LookupsAgree AddressesHaveLines DumpSaysTheSame ModulesNeverSampled
PROPERTIES ImplementsIntervalSet ThreadsGetPast
CHECK_DEADLOCK FALSE
