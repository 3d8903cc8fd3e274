CONSTANTS
  Threads = {t1, t2}
  Loop = loop
  Tasks = {f1, f2}
  Stops = {s1}
  PipeCap = 2
  ReadMax = 1
SPECIFICATION FairSpec
CHECK_DEADLOCK FALSE
INVARIANTS
  NoLostWakeup
  AssertionsHold
  CountIsExact
PROPERTIES
  FairlyImplementsTaskQueue
  StopTerminates
