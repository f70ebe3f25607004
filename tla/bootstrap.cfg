CONSTANTS
  N = 1
  N3 = 1
  Actors <- Processes
  Claims <- TheirSlots
  Mortal = {"combiner"}
  OldClaimed <- EarlierClaims
  Attempts = 2
  MaxAge = 0
  MaxClock = 1
SPECIFICATION FairSpec
INVARIANTS TypeOK AnchorReadable VouchedRoster
PROPERTIES OnlyLateReadersReject BootstrapEnds BootstrapSucceeds
CHECK_DEADLOCK FALSE
