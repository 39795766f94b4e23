SPECIFICATION LineLiveSpec
CONSTANTS
  Main = 9
  Workers = {1, 2}
  Size = 24
  MaxNumeric = 6
  PerSecond = 100
  Times = {5, 112}
  Letters = {"x"}
  Messages <- MCMessages
  MaxMade = 1
INVARIANTS HolderTruth LinesReadBack
PROPERTIES LatchOpens
CHECK_DEADLOCK FALSE
