\* Processes come, go, crash and lose etcd while a gateway calls them.
CONSTANTS
  Instances = {i1, i2}
  Callers = {c1}
  NoInstance = none
  Cap = 2
  MaxFaults = 1
SPECIFICATION FairSpec
INVARIANT ListInSync
INVARIANT NothingLeftBehind
PROPERTY HealthyCallsAnswered
PROPERTY DeadForgotten
CHECK_DEADLOCK FALSE
