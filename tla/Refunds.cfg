\* Two refunds of a Stripe order: requests, a worker and webhooks.
CONSTANTS
  Key = {k1, k2}
  NoKey = NoKey
  Asked <- Two
  Total = 4
  Manual = FALSE
  Admin = {a1, a2}
  Worker = {w1}
  Hook = {h1}
  NoOwner = NoOwner
  MaxAttempts = 2
  MaxClock = 2
  MaxBusy = 2
  MaxFaults = 1
SPECIFICATION Spec
SYMMETRY Interchangeable
INVARIANTS TypeOK NeverOverstated SettledIsAccounted FailedMeansRefused ClosedAfterAccounting
PROPERTY TerminalNotRegressed
CHECK_DEADLOCK FALSE
