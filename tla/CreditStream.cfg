CONSTANTS
  p1 = p1
  p2 = p2
  Producers <- MCProducers
  credit_to = p1
  total_credits = 2
  PortLimit = 2
  OutCapacity = 1
  InCapacity = 1
  CreditIn = 1
  FirstId = 1001
  PacketCounts = {3}
  Reserves = {0, 1}
  MaxStreams <- MCMaxStreams
SPECIFICATION FairSpec
INVARIANTS   StreamInOrder
 
CHECK_DEADLOCK FALSE
