CONSTANTS
  Notifications = {n1}
  Workers = {w1, w2}
  Retriers = {r1, r2}
  MaxRetries = 1
  LongBackoff = FALSE
  MaxFaults <- OneOfEach
SPECIFICATION Spec
\* The system stops when every notification is settled or stranded.
CHECK_DEADLOCK FALSE
INVARIANTS References NoFalseDelivery OnlyDeadLettersExceedLimit SendBudget
SYMMETRY Symmetry
