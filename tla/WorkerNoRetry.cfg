CONSTANTS
  Events = {e1}
  Slots = {s1}
  Targets = {t1}
  MaxTries = 5
  Hazards = {}
  None = None
SPECIFICATION Spec
SYMMETRY Symmetry
INVARIANTS
  FailureIsRetried
CHECK_DEADLOCK FALSE
