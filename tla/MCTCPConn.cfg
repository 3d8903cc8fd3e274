CONSTANTS
  Threads = {t1, t2}
  Messages = {m1, m2}
  MsgLen = 2
  Mark = 3
  MaxReads = 1
  MaxCloses = 2
SPECIFICATION FairSpec
CHECK_DEADLOCK FALSE
INVARIANTS
  StreamInOrder
  OutputIsWatched
  StatusIsTrue
PROPERTIES
  ImplementsConnection
  ConnectionEnds
