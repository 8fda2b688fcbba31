CONSTANTS
  Requests = {r1, r2}
  Keys = {k1}
  None = None
  Hazards = {"call_fails"}
SPECIFICATION ReenqueueSpec
SYMMETRY Symmetry
INVARIANTS
  RetryCanReenqueue
CHECK_DEADLOCK FALSE
