CONSTANTS
  Drives = {"A", "B"}
  Names = {"a", "aB"}
  VMPaths <- MCVMPaths
  MaxFiles = 2
  MaxDepth = 3
  MaxCalls = 5
  Chars <- MCChars
  tolower <- MCtolower
  Spelling <- MCSpelling
  MaxLength = 3
  FindPaths <- MCFindPaths
  Masks = {"any", "dir"}
  Ctxs = {x1, x2}
  Addresses = {b1, b2, b3, b4}
  MaxSearches = 2
SPECIFICATION Spec
INVARIANT OwnStream
INVARIANT NamesOwned
INVARIANT EachEntryOnce
INVARIANT PatternsFit
PROPERTY ChdirTakesEffect
SYMMETRY MCSymmetry
CHECK_DEADLOCK FALSE
