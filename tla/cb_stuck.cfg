\* Fewer tickets than MinRequests: half-open for ever.
CONSTANTS
  Callers = {c1}
  NoCaller = none
  MaxConcurrent = 1
  MinRequests = 2
  ErrNum = 1
  ErrDen = 2
  BucketCount = 2
  BucketTicks = 1
  SleepWindow = 1
  MaxTotal = 3
SPECIFICATION TrafficSpec
PROPERTY HalfOpenResolves
