SPECIFICATION KillSpec
CONSTANTS
  NTask = 4
  QUANTUM = 1
  Word = 16
  Delays = {2}
  Creators = {"shell"}
  SvcCalls = {"sleep", "create", "oom"}
  MaxStacks = 5
  MaxTicks = 6
  Killers = {"shell"}
  Victims = {1, 2}
  MaxKills = 1
INVARIANT FreeIsUnused
