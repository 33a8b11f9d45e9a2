CONSTANTS
  VirtualKeys <- MCVirtualKeys
  Points = {p1, p2}
  NoPoint = NoPoint
  Slots = 2
  MaxQueued = 3
SPECIFICATION FairSpec
INVARIANT TypeOK
INVARIANT KeysFollow
INVARIANT PenFollows
PROPERTY KeysReachFirmware
