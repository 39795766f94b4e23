SPECIFICATION Spec
CONSTANTS
  Servers = {s1, s2}
  Conns = {c1}
  u1 = u1
  u2 = u2
  Uids = {u1, u2}
  NoLink = NoLink
  NoReq = NoReq
  Accepted <- AcceptedHere
  Recorded <- RecordedHere
  MaxRequests = 2
  MaxDrops = 2
INVARIANTS AcceptedAreFriends AcksAreStored PooledClean
PROPERTY ImplementsFriendship
CHECK_DEADLOCK FALSE
