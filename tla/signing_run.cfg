CONSTANTS
  N = 2
  N3 = 1
  OldSigners = {0}
  MaxAge = 1
  MaxClock = 2
  BindAttempts = 2
  TimePasses = TRUE
  CanCrash = FALSE
SPECIFICATION FairSpec
INVARIANTS TypeOK NoPanic SignedOnAllCommitments AttestedByAll
PROPERTIES RunSucceeds NothingRecomputed
CHECK_DEADLOCK FALSE
