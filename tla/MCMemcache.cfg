CONSTANTS
  Scenes <- MCScenes
SPECIFICATION Spec
CHECK_DEADLOCK FALSE
INVARIANTS
  CalledBackOnce
  AnswersInOrder
  RetriedElsewhere
PROPERTY
  IsAnswered
