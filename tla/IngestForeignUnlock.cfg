CONSTANTS
  Requests = {r1, r2}
  Keys = {k1}
  None = None
  Hazards = {"lock_expires"}
SPECIFICATION Spec
PROPERTIES
  UnlockReleasesOnlyOwn
CHECK_DEADLOCK FALSE
