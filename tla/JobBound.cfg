CONSTANTS
  MaxAttempts = 4
  CallMax = 2
  MaxWait = 3
  NumTargets = 1
  Budget = 4
  DispatchMaxWait = 3
  AttemptMax = 2
  SecondsPerTick = 1
  JobTimeout = 0
SPECIFICATION JobSpec
INVARIANTS
  GivesUpOnlyWhenExhausted
  CallBounded
  JobBounded
CHECK_DEADLOCK FALSE
