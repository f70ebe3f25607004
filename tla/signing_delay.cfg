CONSTANTS
  N = 2
  N3 = 1
  OldSigners = {}
  MaxAge = 2
  MaxClock = 4
  BindAttempts = 4
  TimePasses = FALSE
  CanCrash = FALSE
SPECIFICATION Spec
INVARIANTS DelayAbsorbed
CHECK_DEADLOCK FALSE
