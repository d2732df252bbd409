SPECIFICATION Spec
CONSTANTS
  Units = 7
  Word = 64
  Requests = {1, 9, 56}
  Written = {2}
INVARIANTS HeapTypeOK Partition FreeList Freeable TotalIsFree
PROPERTIES FreeAgainIsHarmless AllocatorSpec
