\* A back-fill of L1 outlives the Delete it raced with.
CONSTANTS
  Keys = {k1, k2}
  CacheKeys = {k1, k2}
  Callers = {c1, c2}
  Values = {Absent, v1}
  Absent = Absent
  Marker = Marker
  Failed = Failed
  NoBackfill = NoBackfill
  NoKey = NoKey
  NoResult = NoResult
  Results <- MCResults
  MaxSize = 1
  L2Fails = FALSE
  MaxUpdates = 1
SPECIFICATION Spec
CHECK_DEADLOCK FALSE
INVARIANT DeletedStaysDeleted
