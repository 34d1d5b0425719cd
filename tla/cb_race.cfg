\* Three goroutines race on one breaker that lets one probe through at a time.
CONSTANTS
  Callers = {c1, c2, c3}
  NoCaller = none
  MaxConcurrent = 1
  MinRequests = 2
  ErrNum = 1
  ErrDen = 2
  BucketCount = 2
  BucketTicks = 1
  SleepWindow = 1
  MaxTotal = 3
SPECIFICATION Spec
SYMMETRY Symmetry
INVARIANT TicketLedger
INVARIANT GrantsBounded
INVARIANT DecisionStillValid
