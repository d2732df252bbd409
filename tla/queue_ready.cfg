SPECIFICATION ReadySpec
CONSTANTS
  NTask = 4
  NULL = NULL
  Delays = {2, 3}
  MaxTicks = 5
INVARIANT ReadyIsQueued
CHECK_DEADLOCK FALSE
