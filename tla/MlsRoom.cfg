SPECIFICATION LiveSpec
CONSTANTS
  Device = {a, b, c}
  MaxLeaf = 3
  MaxEvents = 1
INVARIANTS
  SealedToReaders
  RemovalJustified
  OneLeafEach
PROPERTIES
  ReadersReturn
  BarredLeave
CHECK_DEADLOCK FALSE
