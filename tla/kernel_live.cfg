SPECIFICATION FairSpec
CONSTANTS
  NTask = 4
  QUANTUM = 1
  Word = 16
  Delays = {2}
  Creators = {"shell", "cmd"}
  SvcCalls = {"sleep", "pin", "malloc"}
  MaxStacks = 4
  MaxTicks = 6
PROPERTIES RunnableRuns SleeperWakes TokenGranted
