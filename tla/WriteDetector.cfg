CONSTANTS
  Interval = 2
  Checks = 2
  Period = 1
  MaxPause = 3
  MaxSize = 2
  MaxTime = 13
SPECIFICATION Spec
INVARIANTS
  OnlyWholeFilesDispatched
  DetectorInv
  DispatchedInTime
CHECK_DEADLOCK FALSE
