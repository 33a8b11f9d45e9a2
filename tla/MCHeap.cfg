CONSTANTS
  HeapBase = 16
  HeapSize = 112
  Sizes = {0, 1, 17, 48}
  Tags = {x, y}
  MayStray = TRUE
SPECIFICATION Spec
INVARIANT Tiling
INVARIANT FindsEveryGap
INVARIANT GuestUnharmed
PROPERTY NoReleaseAfterDamage
PROPERTY ImplementsAllocator
SYMMETRY TagSymmetry
CHECK_DEADLOCK FALSE
