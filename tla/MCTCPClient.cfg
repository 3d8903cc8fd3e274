CONSTANTS
  MaxConnectors = 3
  MaxConnects = 3
  MaxDisconnects = 2
  MaxCloses = 2
SPECIFICATION FairSpec
CHECK_DEADLOCK FALSE
INVARIANTS
  AttemptIsTracked
  OneAttempt
PROPERTIES
  ConnectIsAnswered
