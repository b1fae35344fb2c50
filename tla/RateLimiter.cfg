CONSTANTS
  Callers = {1, 2}
  Rate = 2
  Capacity = 6
  Cost = 3
  Timeout = 3
  MaxSleep = 1
  MaxTime = 7
SPECIFICATION Spec
INVARIANTS
  BurstPlusRate
PROPERTIES
  TimeoutIsKept
CHECK_DEADLOCK FALSE
