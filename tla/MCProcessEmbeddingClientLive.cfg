SPECIFICATION FairSpec
CONSTANTS
  Call = {c1, c2}
  NoCall = NoCall
CHECK_DEADLOCK FALSE
PROPERTIES
  EveryCallEnds
