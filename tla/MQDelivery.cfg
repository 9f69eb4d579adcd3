SPECIFICATION FairSpec
CONSTANTS
  Messages = {m1}
  Handlers = {h1, h2, h3}
  MaxConcurrency = 1
  Prefetch = 2
  MaxAttempts = 2
  MaxFaults = 2
  None = None
INVARIANTS TypeOK NothingLost BuriedAfterAllTries AttemptsBounded QuietMeansOnce
PROPERTY QueueDrains
CHECK_DEADLOCK FALSE
