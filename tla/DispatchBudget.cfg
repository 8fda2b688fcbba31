CONSTANTS
  NumTargets = 2
  Budget = 4
  MaxWait = 3
  AttemptMax = 2
  SecondsPerTick = 1
SPECIFICATION FairSpec
INVARIANTS
  OverrunBounded
  OneResultPerTarget
PROPERTIES
  CallReturns
CHECK_DEADLOCK FALSE
