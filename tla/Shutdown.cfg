SPECIFICATION SLiveSpec
CONSTANTS
  mysql = mysql
  users = users
  io = io
  Producers = {0, 1}
  Msgs = {m1, m2, m3}
  Managers = {mysql, users, io}
  Pools = {mysql}
  Uses <- MCUses
  MaxSessions = 4
INVARIANTS DrainedAtExit DanglingWasLeft
PROPERTIES ImplementsFifo EveryPostHandled ImplementsLogicQueue ShutdownEnds
CHECK_DEADLOCK FALSE
