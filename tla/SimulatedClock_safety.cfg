SPECIFICATION ClockSpec
CONSTANTS
  Timeouts = {0, 1, 2}
  MaxTimers = 3
  MaxTime = 3
  MaxDepth = 2
CHECK_DEADLOCK FALSE
INVARIANTS NothingOverdue FiresInOrderOnce
