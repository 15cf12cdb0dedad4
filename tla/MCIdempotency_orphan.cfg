CONSTANTS
  r1 = r1  r2 = r2  r3 = r3  r4 = r4  r5 = r5
  k1 = k1  k2 = k2  b1 = b1  b2 = b2
  Requests = {r1, r2}
  Keys = {k1, k2}
  Bodies = {b1, b2}
  NoKey = NoKey
  Nobody = Nobody
  KeyOf <- MCKeyOf
  BodyOf <- MCBodyOf
  MaxFaults <- OneHangUp
SPECIFICATION Spec
\* The system stops when every request has been served.
CHECK_DEADLOCK FALSE
INVARIANTS InProgressIsServed
