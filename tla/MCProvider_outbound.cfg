CONSTANTS
  MaxAttempts = 2
  WebhookMaxRetries = 2
  MaxCalls = 2
  MaxExits = 1
SPECIFICATION FairSpec
\* At rest when all attempts and callbacks have ended.
CHECK_DEADLOCK FALSE
INVARIANTS TypeOK CallbacksTrue DuplicatesExplained GivenUpLast PostsBounded
PROPERTIES WorkerFreed NoLeak NotifyEnds
