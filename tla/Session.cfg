SPECIFICATION SLiveSpec
CONSTANTS
  Msgs = {1, 2, 3}
  Pieces = 2
  Base = 4
  Hello = 1
  List = 2
  Query = 3
  WrongTyped <- MCWrongTyped
  Requests <- MCRequests
  ReplySizes <- MCReplySizes
  MaxFrames = 3
INVARIANTS FramesIntact HandedAsFramed RepliesWhole
PROPERTIES ImplementsFifo EveryHelloEchoed
CHECK_DEADLOCK FALSE
