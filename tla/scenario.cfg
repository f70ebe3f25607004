CONSTANTS
  N = 1
  N3 = 2
  Lines <- LinesPrinted
  PipeLines = 3
  PortsInUse <- AllServers
  Attempts = 2
  MaxFaults = 1
SPECIFICATION FairSpec
INVARIANTS TypeOK OkMeansEverybody NothingLeftRunning
PROPERTIES ScenarioEnds FailureHasACause
CHECK_DEADLOCK FALSE
