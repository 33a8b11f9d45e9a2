CONSTANTS
  MaxLCDs = 3
  Levels = {1, 2}
  Pixels = 2
SPECIFICATION Spec
INVARIANT WaitsForNewWindow
CHECK_DEADLOCK FALSE
