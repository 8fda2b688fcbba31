CONSTANTS
  MaxAttempts = 4
  CallMax = 1
  MaxWait = 1
  NumTargets = 1
  Budget = 12
  DispatchMaxWait = 3
  AttemptMax = 3
  SecondsPerTick = 10
  JobTimeout = 18
SPECIFICATION JobSpec
INVARIANTS
  JobFitsTimeout
CHECK_DEADLOCK FALSE
