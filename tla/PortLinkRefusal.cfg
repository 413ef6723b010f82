CONSTANTS
  VcIds <- MCOneChannel
  OutVCs <- MCOneChannel
  InVCs <- MCOneChannel
  OutCapacity <- MCTwo
  InCapacity <- MCFour
  CallerTouches = {TRUE}
  MaxSent = 8
SPECIFICATION Spec
INVARIANT RefusalIsUsable
CHECK_DEADLOCK FALSE
