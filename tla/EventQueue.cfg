CONSTANTS
  t1 = t1
  t2 = t2
  l1 = l1
  l2 = l2
  l3 = l3
  Tickers <- MCTickers
  Lambdas <- MCLambdas
  Delays <- MCDelays
  RunLengths <- MCRunLengths
  MaxCycle = 5
SPECIFICATION FairSpec
INVARIANTS Lockstep TickCount OnTime
PROPERTIES RunReturns ImplementsMetronome
