CONSTANTS
  MaxThreads = 2
  MaxPicks = 2
  Listeners = {3, 4}
  Workers = {1, 2, 3, 4}
  Requests = {1}
  MaxToggles = 1
SPECIFICATION ServerSpec
CHECK_DEADLOCK FALSE
INVARIANTS
  StatusTellsThreads
PROPERTIES
  RequestFate
  StopsAndAnswers
