CONSTANTS
  Notifications = {n1}
  Workers = {w1, w2}
  Retriers = {}
  MaxRetries = 2
  LongBackoff = FALSE
  MaxFaults <- OneOfAll
SPECIFICATION Spec
\* The system stops when every notification is settled or stranded.
CHECK_DEADLOCK FALSE
INVARIANTS NoOverlappingSends ExhaustedHasLetter NoResend
SYMMETRY Symmetry
