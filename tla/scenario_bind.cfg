CONSTANTS
  N = 1
  N3 = 1
  Lines <- LinesPrinted
  PipeLines = 4
  PortsInUse <- AuthorityOnly
  Attempts = 3
  MaxFaults = 0
SPECIFICATION FairSpec
PROPERTIES BindDelayAbsorbed
CHECK_DEADLOCK FALSE
