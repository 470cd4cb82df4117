INIT Init
NEXT Next
CONSTANTS
  DetectionTime = 4
  Interval = 3
  Count = 3
  MaxTime = 24
CHECK_DEADLOCK FALSE
INVARIANT
  DeadAtCount
