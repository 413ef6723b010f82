CONSTANTS
  NumCpus = 1
  NumMems = 2
  MaxInFlight = 4
  MAX_BUFFER = 4
  CpuOut = 4
  CpuIn = 4
  MemOut = 4
  MemIn = 4
  MemDelay = 2
  FirstAddr = 4336
  MaxRequests = 8
SPECIFICATION FairSpec
INVARIANTS TableExact NeverHeldBack ForwardsSuffice InOrder
 
CHECK_DEADLOCK FALSE
