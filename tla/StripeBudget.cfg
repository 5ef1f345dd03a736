\* A delivery that stalls between its read and its claim.
CONSTANTS
  Delivery = {d1, d2, d3, d4}
  NoOwner = NoOwner
  Lease = 2
  MaxAttempts = 3
  Delay <- MCDelay
  MaxClock = 4
  MaxFaults = 0
  MaxReplays = 0
SPECIFICATION Spec
SYMMETRY Interchangeable
INVARIANT RetryBudget
CHECK_DEADLOCK FALSE
