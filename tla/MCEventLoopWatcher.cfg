CONSTANTS
  Threads = {t1, t2}
  Loop = loop
  Tasks = {f1, f2}
  Stops = {s1, s2}
  PipeCap = 2
  ReadMax = 1
SPECIFICATION Spec
SYMMETRY Symmetry
CHECK_DEADLOCK FALSE
INVARIANT NotifyOnlyLiveWatcher
