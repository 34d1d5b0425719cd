CONSTANTS
  Hooks = 2
  Requests = {r1, r2}
  BufferSize = 1
  MaxEvents = 3
  Askers = {p1, p2}
  Samples = 3
  Callers = {c1, c2}
  NoCaller = none
SPECIFICATION Spec
INVARIANTS
  NilMeansStopped
  KillsOnlyPastTimeout
  GaugeCounts
  StreamIntact
PROPERTIES
  RunReturns
  WorkersEnd
  StreamEnds
  ShedderRecovers
  HalfOpenResolves
CHECK_DEADLOCK FALSE
