SPECIFICATION Spec
CONSTANTS
  Sessions = {s1}
  Uids = {u1}
  NoSession = NoSession
  NoUid = NoUid
  MaxTokens = 1
  MaxMessages = 2
  MaxErrors = 0
  MaxCrashes = 0
INVARIANT CloseUnregisters
CHECK_DEADLOCK FALSE
