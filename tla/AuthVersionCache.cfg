\* Two isolates, two checks, two bumps, a cache lifetime of two ticks.
CONSTANTS
  Isolate = {i1, i2}
  Check = {c1, c2}
  Ttl = 2
  MaxClock = 5
  MaxBumps = 2
  NoIsolate = NoIsolate
SPECIFICATION Spec
SYMMETRY Interchangeable
INVARIANTS TypeOK StaleAtMostTtl
CHECK_DEADLOCK FALSE
