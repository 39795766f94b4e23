SPECIFICATION Spec
CONSTANTS
  Sessions = {s1, s2}
  Uids = {u1, u2}
  NoSession = NoSession
  NoUid = NoUid
  MaxTokens = 1
  MaxMessages = 3
  MaxErrors = 1
  MaxCrashes = 1
SYMMETRY PresenceSymmetry
INVARIANTS RegistryClean AckMeansRegistered PushRightUser NoUndercount
CHECK_DEADLOCK FALSE
