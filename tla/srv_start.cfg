\* A server with the framework's own providers, started as nexus.go shows.
CONSTANTS
  Names = {"config", "registry", "lifecycle"}
  MaxCalls = 5
SPECIFICATION SrvSpec
INVARIANT StartServes
CHECK_DEADLOCK FALSE
