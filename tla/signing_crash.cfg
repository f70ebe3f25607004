CONSTANTS
  N = 2
  N3 = 2
  OldSigners = {}
  MaxAge = 1
  MaxClock = 2
  BindAttempts = 2
  TimePasses = FALSE
  CanCrash = TRUE
SPECIFICATION FairSpec
INVARIANTS AttestedByAll
PROPERTIES NobodyHangs
CHECK_DEADLOCK FALSE
