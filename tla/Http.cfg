SPECIFICATION HLiveSpec
CONSTANTS
  Parts = 2
  Deadline = 2
  MaxConns = 3
INVARIANTS ResponseWhole
PROPERTIES HandledCloses
CHECK_DEADLOCK FALSE
