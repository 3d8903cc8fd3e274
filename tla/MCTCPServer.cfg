CONSTANT MaxConns = 3
SPECIFICATION FairSpec
CHECK_DEADLOCK FALSE
INVARIANTS
  StoppedIsClean
  LiveIsHeld
PROPERTIES
  StopReturnsUnlessSkipped
