\* Two readers and a writer on two keys and a cache of one entry.
CONSTANTS
  Keys = {k1, k2}
  CacheKeys = {k1, k2}
  Callers = {c1, c2}
  Values = {Absent, v1}
  Absent = Absent
  Marker = Marker
  Failed = Failed
  NoBackfill = NoBackfill
  NoKey = NoKey
  NoResult = NoResult
  Results <- MCResults
  MaxSize = 1
  L2Fails = TRUE
  MaxUpdates = 1
SPECIFICATION Spec
SYMMETRY Symmetry
INVARIANT OneLoader
INVARIANT WaitersHaveLeader
INVARIANT CacheBounded
INVARIANT CoherentUnlessRaced
CHECK_DEADLOCK FALSE
