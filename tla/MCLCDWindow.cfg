CONSTANTS
  MaxLCDs = 3
  Levels = {1, 2}
  Pixels = 2
SPECIFICATION FairSpec
INVARIANT OneWindow
PROPERTY InstanceStable
PROPERTY CallReturns
PROPERTY BrightnessShown
CHECK_DEADLOCK FALSE
