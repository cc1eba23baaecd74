SPECIFICATION FairSpec
CONSTANTS
  MaxTasks = 4
  MaxDepth = 1
  TickMod = 2
INVARIANTS TypeOK SavedContextIntact RunsCurrentTask KernelEntryStack RingComplete
PROPERTIES ResumesWhereStopped NoStarvation RoundRobinImplemented
