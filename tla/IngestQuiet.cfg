CONSTANTS
  Requests = {r1, r2, r3}
  Keys = {k1}
  None = None
  Hazards = {}
SPECIFICATION ReceivedFairSpec
INVARIANTS
  MutualExclusion
  ConstraintNeverFires
PROPERTIES
  ConflictMeansInFlight
  LockEventuallyFree
CHECK_DEADLOCK FALSE
