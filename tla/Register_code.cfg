SPECIFICATION Spec
CONSTANTS
  e1 = e1
  e2 = e2
  n1 = n1
  p1 = p1
  p2 = p2
  k1 = k1
  k2 = k2
  Gates = {g1}
  Calls = {c1}
  Emails = {e1}
  Names = {n1}
  WithAt = {e1}
  Passwords = {p1}
  Codes = {k1}
  Asked <- OnlyCodes
  Leftover = {}
  NoCode = NoCode
  NoGate = NoGate
  NoReq = NoReq
  TTL = 2
  MaxRequests = 2
  MaxFaults = 0
INVARIANT MailedCodeLasts
CHECK_DEADLOCK FALSE
