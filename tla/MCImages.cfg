CONSTANTS
  PAGE_SIZE = 2
  HeapBase = 8
  HeapPages = 1
  Addresses <- MCAddresses
  Sizes <- MCSizes
  HostAddresses <- MCHostAddresses
  Programs <- MCPrograms
  Registers <- MCRegisters
  Files = {"a", "b", "c", "d"}
  Preferred <- MCPreferred
  Sections <- MCSections
  Bases <- MCBases
  StubBases <- MCStubBases
  STUB_SIZE = 1
  MaxStubs = 1
SPECIFICATION ImagesSpec
INVARIANT TablesAgree
INVARIANT BlocksDisjoint
INVARIANT RoundTrip
INVARIANT ImageWhole
INVARIANT BlocksOwned
CHECK_DEADLOCK FALSE
