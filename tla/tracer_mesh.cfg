CONSTANTS
  N3 = 3
  Attempts = 2
  BusyPorts = {0}
  OldListeners = {1}
  Strays <- OneStray
  StrayHello <- ItsHello
  CanCrash = TRUE
SPECIFICATION FairSpec
INVARIANTS TypeOK GenuineLinks UpIsComplete
PROPERTIES EventuallyMesh
CHECK_DEADLOCK FALSE
