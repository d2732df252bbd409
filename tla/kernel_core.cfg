SPECIFICATION Spec
CONSTANTS
  NTask = 5
  QUANTUM = 1
  Word = 16
  Delays = {2, 3}
  Creators = {"shell"}
  SvcCalls = {"sleep", "pin", "malloc", "create", "oom"}
  MaxStacks = 5
  MaxTicks = 6
INVARIANTS TypeOK NullReady NoNullActive OnOneQueue QueueMatchesState NoOversleep TokenConserved
PROPERTIES WakeNotEarly
