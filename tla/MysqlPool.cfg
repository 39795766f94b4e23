SPECIFICATION LiveSpec
CONSTANTS
  Threads = {t1, t2, t3}
  Conns = {c1, c2, c3, c4}
  NoConn = NoConn
INVARIANT NoSharing
PROPERTIES CloseReleases SpareCallsFinish
CHECK_DEADLOCK FALSE
