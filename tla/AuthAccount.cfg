\* Every handler of the account against every other, with two database faults.
CONSTANTS
  s = s
  a = a
  b = b
  c = c
  d = d
  None = None
  Req = {s, a, b, c}
  Seed = {s}
  Kinds = {"login", "refresh", "change", "forgot", "reset", "admin", "key", "keyrevoke", "revoke", "logout"}
  MaxFaults = 2
SPECIFICATION Spec
SYMMETRY Interchangeable
INVARIANTS TypeOK OneLiveGeneration RotatedOnce RevokedDeviceIsOut
  ChangeEndsOldCredentials ResetLinkSpentOnce RoleChangeReachesTokens
PROPERTY NoTokensAfterRevocation
CHECK_DEADLOCK FALSE
