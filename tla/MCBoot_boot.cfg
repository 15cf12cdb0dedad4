CONSTANTS
  Width = 8
  Second = 1
  Processes = {p1, p2}
  Count = 2
  Unset = Unset
  Garbage = Garbage
  Environments <- MCEnvironments
  Keys <- MCKeys
  MaxBoots = 2
  MaxFaults <- OneOfEach
SPECIFICATION FairSpec
\* The system stops when every process runs or is not started again.
CHECK_DEADLOCK FALSE
INVARIANTS TypeOK RunningIsReady MigrationsWhole AppliedOnce LosersCanRestart DelaysRight
PROPERTIES BootEnds
