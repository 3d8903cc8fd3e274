CONSTANTS
  Addrs = {"a", "b"}
  MaxObjects = 3
  Commands = {"c1", "c2"}
  Size <- MCSize
  Scenes <- MCScenes
SPECIFICATION Spec
CHECK_DEADLOCK FALSE
INVARIANTS
  ListedByStatus
  AcksInOrder
PROPERTY
  PublishIsTold
