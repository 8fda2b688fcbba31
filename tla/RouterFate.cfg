CONSTANTS
  Events = {e1, e2}
  Slots = {s1}
  Targets = {t1, t2}
  MaxTries = 2
  Hazards = {}
  None = None
  Keys = {k1, k2}
  IntakeHazards = {"lock_expires"}
SPECIFICATION RouterFairSpec
INVARIANTS
  NothingLost
  OneDispatchPerKey
PROPERTIES
  FateIsSettled
  AcceptedIsSettled
  KeyIsSettledOnce
CHECK_DEADLOCK FALSE
