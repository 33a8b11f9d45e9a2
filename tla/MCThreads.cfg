CONSTANTS
  MaxThreads = 3
  CriticalSections = {c1, c2}
  MaxEvents = 1
  MaxRecursion = 2
  NoCS = NoCS
SPECIFICATION Spec
INVARIANT OwnerAgreement
INVARIANT WaitersAgreement
INVARIANT EventAgreement
INVARIANT BlockedNeverRuns
INVARIANT OneRing
PROPERTY NoOvertaking
SYMMETRY CSSymmetry
