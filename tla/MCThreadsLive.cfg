CONSTANTS
  MaxThreads = 3
  CriticalSections = {c1}
  MaxEvents = 1
  MaxRecursion = 1
  NoCS = NoCS
SPECIFICATION FairSpec
PROPERTY UnblockedRuns
PROPERTY WaiterGetsSection
PROPERTY TimedWaitsEnd
