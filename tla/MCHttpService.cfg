SPECIFICATION Spec
CONSTANTS
  INT64_MAX = 199
  HTTP_MAX_HEADER_SIZE = 75
  Inputs <- MCInputs
  ParserInputs <- MCParserInputs
  Registered <- MCRegistered
  PieceSizes = {1, 2, 3, 4, 5, 6, 7, 8, 9, 13, 17}
INVARIANTS
  RequestsAsSent
  RepliesMakeSense
  PiecesAgree
  ParserBounds
CHECK_DEADLOCK FALSE
