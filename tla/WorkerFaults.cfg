CONSTANTS
  Events = {e1, e2}
  Slots = {s1, s2}
  Targets = {t1}
  MaxTries = 2
  Hazards = {"call_fails", "llm_raises", "timeout", "shutdown", "crash"}
  None = None
SPECIFICATION FairSpec
INVARIANTS
  TypeOK
  OneRunPerEvent
  DeadLetterIsFinal
  BuriesOnce
  DispatchedMeansDelivered
  NoFailureSwallowed
  DispatchesBounded
PROPERTIES
  AttemptsNeverDecrease
  FateUnderFaults
  QueueDrains
CHECK_DEADLOCK FALSE
