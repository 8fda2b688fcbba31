CONSTANTS
  Faults = {"start_fails", "close_fails"}
  TicksPerSecond = 3
  MaxAge = 1
  MaxDrift = 4
  MaxTime = 9
SPECIFICATION ApplicationSpec
INVARIANTS
  ApplicationTypeOK
  ClosesAreIndependent
  WorkerLeavesEngineAtMost
  ReadyTellsTheTruth
  PunctualIsNotExpired
  AcceptedWithinTwoWindows
CHECK_DEADLOCK FALSE
