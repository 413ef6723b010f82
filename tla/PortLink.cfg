CONSTANTS
  VcIds <- MCVcIds
  OutVCs <- MCOutVCs
  InVCs <- MCInVCs
  OutCapacity <- MCOutCapacity
  InCapacity <- MCInCapacity
  CallerTouches = {TRUE, FALSE}
  MaxSent = 4
SPECIFICATION Spec
INVARIANTS TypeOK NoGap OnePlace Accounted
PROPERTIES  ImplementsGapless
CHECK_DEADLOCK FALSE
