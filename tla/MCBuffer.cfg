SPECIFICATION Spec
CONSTANTS
  Byte = {a, b}
  Garbage = garbage
  InitialSize = 1
  Prepend = 1
  Reserves = {0, 1}
  ExtraSize = 2
  MaxLen = 2
  MaxCapacity = 6
INVARIANT IndicesInOrder
PROPERTIES IsByteQueue UnreadGivesBack
