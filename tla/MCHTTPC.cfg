CONSTANTS
  Timers = {1, 2, 3, 4, 5}
  UserTimers = {5}
  MaxCancels = 3
  MaxRequests = 2
  MaxRetries = 2
  max_pool_size_ = 1
  MaxClears = 1
  Scenes <- MCScenes
SPECIFICATION Spec
CHECK_DEADLOCK FALSE
INVARIANTS
  NeverUsedFreed
  OneUser
  AsOftenAsSaid
PROPERTIES
  RunsAsAsked
  IsHandled
