\* An invoice that outlives its subscription, handled before the deletion.
CONSTANTS
  Sub = {s1, s2}
  Worker = {w1, w2}
  Rounds = 2
  MaxTime = 3
  MaxPending = 4
  None = None
SYMMETRY Interchangeable
SPECIFICATION Spec
INVARIANT DeletionIsFinal
