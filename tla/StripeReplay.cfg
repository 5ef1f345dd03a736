\* A replay that stops half way.
CONSTANTS
  Delivery = {d1, d2, d3}
  NoOwner = NoOwner
  Lease = 2
  MaxAttempts = 1
  Delay <- MCDelay
  MaxClock = 3
  MaxFaults = 1
  MaxReplays = 1
SPECIFICATION Spec
SYMMETRY Interchangeable
INVARIANT AcknowledgedIsRecoverable
CHECK_DEADLOCK FALSE
