\* Ended families lose their refresh rows when the database answers.
CONSTANTS
  s = s
  a = a
  b = b
  c = c
  d = d
  None = None
  Req = {s, a, b, c}
  Seed = {s}
  Kinds = {"login", "refresh", "revoke", "logout", "change", "admin"}
  MaxFaults = 0
SPECIFICATION FairSpec
PROPERTY EndedFamilyIsRevoked
CHECK_DEADLOCK FALSE
