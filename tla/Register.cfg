SPECIFICATION LiveSpec
CONSTANTS
  e1 = e1
  e2 = e2
  n1 = n1
  p1 = p1
  p2 = p2
  k1 = k1
  k2 = k2
  Gates = {g1, g2}
  Calls = {c1, c2}
  Emails = {e1, e2}
  Names = {n1, e2}
  WithAt = {e1, e2}
  Passwords = {p1, p2}
  Codes = {k1, k2}
  Asked <- SomeAsked
  Leftover = {k1}
  NoCode = NoCode
  NoGate = NoGate
  NoReq = NoReq
  TTL = 1
  MaxRequests = 3
  MaxFaults = 1
INVARIANTS RegisteredIsStored RefusalIsTrue MailedIsCurrent
PROPERTIES NeverForgotten EveryRequestAnswered
CHECK_DEADLOCK FALSE
