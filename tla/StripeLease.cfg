\* Redeliveries, takeovers and replays of one event.
CONSTANTS
  Delivery = {d1, d2, d3, d4}
  NoOwner = NoOwner
  Lease = 2
  MaxAttempts = 2
  Delay <- MCDelay
  MaxClock = 4
  MaxFaults = 1
  MaxReplays = 1
SPECIFICATION Spec
SYMMETRY Interchangeable
INVARIANTS TypeOK LeaseExclusion SealedOnce NoSilentLoss
CHECK_DEADLOCK FALSE
