SPECIFICATION Spec
CONSTANTS
  NTask = 4
  NULL = NULL
  Delays = {2, 3}
  MaxTicks = 5
INVARIANTS LastIsLast
PROPERTIES ListsSpec
