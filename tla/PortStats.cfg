CONSTANTS
  Connections = {c1, c2}
  Modulus = 8
  Lengths = {5}
  Credits = {2}
  Garbage = {0, 7}
  MaxCycle = 2
  MaxPackets = 3
SPECIFICATION Spec
SYMMETRY Symmetry
INVARIANTS TotalsExact EndsAgree DelaysWithinRun
CHECK_DEADLOCK FALSE
