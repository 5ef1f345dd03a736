\* Two subscriptions of one user, one after the other, and two workers.
CONSTANTS
  Sub = {s1, s2}
  Worker = {w1, w2}
  Rounds = 2
  MaxTime = 3
  MaxPending = 3
  None = None
SYMMETRY Interchangeable
SPECIFICATION Spec
INVARIANTS TypeOK Settled CanceledHasNoQuota CheckoutIsWhole
PROPERTIES ForwardOnly TotalsForward
