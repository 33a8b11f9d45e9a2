CONSTANTS
  Dlls = {d1, d2, d3}
  MaxCopies = 8
  MaxLoads = 2
SPECIFICATION Spec
INVARIANT TypeOK
INVARIANT LoadedStaysMapped
INVARIANT FailureCleansUp
INVARIANT ImportsBound
SYMMETRY DllSymmetry
CHECK_DEADLOCK FALSE
