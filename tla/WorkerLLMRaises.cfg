CONSTANTS
  Events = {e1}
  Slots = {s1}
  Targets = {t1}
  MaxTries = 5
  Hazards = {"llm_raises"}
  None = None
SPECIFICATION Spec
SYMMETRY Symmetry
INVARIANTS
  FailureIsRecorded
CHECK_DEADLOCK FALSE
