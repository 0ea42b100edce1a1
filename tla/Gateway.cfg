SPECIFICATION FairSpec
CONSTANTS
  Detectors <- MCDetectors
  Hidden <- MCHidden
  NoSession = "none"
  Lines <- MCLines
  Fragments <- MCFragments
  Escapes <- MCEscapes
  PipeCap = 1
  MaxRequests = 3
  MaxUnasked = 1
INVARIANTS NothingLostAtExit
PROPERTIES  SessionEnds
CHECK_DEADLOCK FALSE
