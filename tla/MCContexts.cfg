CONSTANTS
  MaxThreads = 2
  CriticalSections = {}
  MaxEvents = 0
  MaxRecursion = 1
  NoCS = NoCS
  MaxPoint = 2
SPECIFICATION CtxSpec
INVARIANT ResumesWhereItStopped
INVARIANT SnapshotsCurrent
