CONSTANTS
  Requests = {r1, r2, r3}
  Keys = {k1}
  None = None
  Hazards = {"call_fails", "crash", "lock_expires", "cache_expires"}
SPECIFICATION ReceivedFairSpec
INVARIANTS
  ReceivedTypeOK
  OneJobPerKey
  AcceptedIsDurable
  PersistedBeforeQueued
  LockIsOwned
  CountedAsAnswered
  AcceptedSeriesCountsJobs
PROPERTIES
  KeyIsServedOnce
  PersistedEventuallyQueued
CHECK_DEADLOCK FALSE
