CONSTANTS
  NumCpus = 2
  NumMems = 1
  MaxInFlight = 2
  MAX_BUFFER = 1
  CpuOut = 1
  CpuIn = 2
  MemOut = 1
  MemIn = 1
  MemDelay = 1
  FirstAddr = 4096
  MaxRequests = 4
SPECIFICATION Spec
INVARIANTS TypeOK HitsExact
PROPERTY SlotLost
CHECK_DEADLOCK FALSE
