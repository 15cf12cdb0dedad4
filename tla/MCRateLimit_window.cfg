CONSTANTS
  u1 = u1
  Requests = {r1, r2, r3, r4}
  ApiKeys = {k1, k2}
  UserOf <- MCUserOf
  Rps = 2
  Burst = 0
  Window = 3
  MaxDelay = 1
  MaxTime = 8
  MaxFaults = 1
SPECIFICATION Spec
\* The clock stops at MaxTime.
CHECK_DEADLOCK FALSE
INVARIANTS TypeOK WindowLimited RefusedForCause
SYMMETRY Symmetry
