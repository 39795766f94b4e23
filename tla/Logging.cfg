SPECIFICATION LLiveSpec
CONSTANTS
  Capacity = 2
  Limit = 2
  MaxLines = 6
  NoBuffer = NoBuffer
  RollSize = 2
  CheckEvery = 2
  FlushInterval = 1
  Day = 2
  StdioSize = 1
  MaxTime = 3
  MaxErrors = 1
INVARIANTS FilesHoldLines
PROPERTIES RollsInTime EveryLineOnDisk StopReturns
CHECK_DEADLOCK FALSE
