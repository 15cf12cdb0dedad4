CONSTANTS
  u1 = u1
  Requests = {r1, r2, r3}
  ApiKeys = {k1, k2}
  UserOf <- MCUserOf
  Rps = 1
  Burst = 2
  Window = 3
  MaxDelay = 0
  MaxTime = 4
  MaxFaults = 0
SPECIFICATION Spec
\* The clock stops at MaxTime.
CHECK_DEADLOCK FALSE
INVARIANTS UserLimited
