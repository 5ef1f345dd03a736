\* A refund Stripe failed, asked for again under its key.
CONSTANTS
  Key = {k1}
  NoKey = NoKey
  Asked <- Two
  Total = 4
  Manual = FALSE
  Admin = {a1, a2}
  Worker = {w1}
  Hook = {h1, h2}
  NoOwner = NoOwner
  MaxAttempts = 2
  MaxClock = 1
  MaxBusy = 2
  MaxFaults = 0
SPECIFICATION Spec
INVARIANT PendingMeansUnanswered
CHECK_DEADLOCK FALSE
