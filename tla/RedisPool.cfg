SPECIFICATION SLiveSpec
CONSTANTS
  Threads = {t1, t2}
  Conns = {c1, c2}
  NoConn = NoConn
  MaxCalls = 3
  Users = {u1}
  NoRpc = NoRpc
INVARIANTS OnlyBrokenLost ToldIsStored
PROPERTIES EveryCommandFinishes ServiceEnds
CHECK_DEADLOCK FALSE
