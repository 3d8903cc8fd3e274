SPECIFICATION FairSpec
CONSTANTS
  NPorts = 2
  MaxDatagrams = 2
  MaxPauses = 1
CHECK_DEADLOCK FALSE
INVARIANTS
  ToldIsHeard
PROPERTIES
  CallsReturn
