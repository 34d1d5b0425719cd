CONSTANTS
  Names = {a, b, c}
  MaxCalls = 5
  Requests = {r1, r2}
  Publishers = {p1, p2}
  MaxSubs = 3
  MinRequests = 3
  BucketCount = 2
  GlobalBurst = 3
  ServiceBurst = 2
  Retries = 1
  MaxRpcs = 3
  NoObserver = NoObserver
  MaxObservations = 2
  MaxSpans = 3
  Size = 3
  CounterMax = 3
  MaxPicks = 6
  Servers = {s1, s2}
  FirstId = 1
  Preloaded = 2
  Sources <- UserSources
  Files <- SectionFiles
  Environments <- VariableSets
  Editions <- FourEditions
  MaxCommands = 3
  MaxFaults = 1
  Callers = {c1, c2, c3}
  RateArg = 1
  BurstArg = 2
  Needs = {1, 2}
  MaxTime = 2
SPECIFICATION Spec
INVARIANTS
  DependenciesFirst
  EveryoneOnce
  OpenLeakBounded
  ParsesBack
  ScrapeWithinCount
  PrecedenceKept
  TracesWhole
  EvenShares
  ReceiptsHold
  OthersAnswersOnlyLate
  ChargesBounded
  ReferencesResolve
  TokensWithinBurst
  IssueBounded
PROPERTIES
  CyclesReported
  DependentsClosedFirst
  DeadUpstreamTrips
  KeepsPromises
CHECK_DEADLOCK FALSE
