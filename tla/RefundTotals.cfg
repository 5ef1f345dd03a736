\* Two manual refunds of one order at once.
CONSTANTS
  Key = {k1, k2}
  NoKey = NoKey
  Asked <- Two
  Total = 4
  Manual = TRUE
  Admin = {a1, a2}
  Worker = {}
  Hook = {}
  NoOwner = NoOwner
  MaxAttempts = 1
  MaxClock = 1
  MaxBusy = 2
  MaxFaults = 0
SPECIFICATION Spec
INVARIANT RefundsAddUp
CHECK_DEADLOCK FALSE
