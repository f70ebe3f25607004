CONSTANTS
  N3 = 4
  MinQual = 3
  MaxAge = 0
  MaxClock = 0
  BadBroadcast = {3}
  BadShares <- NoShare
  MaxDeaths = 0
SPECIFICATION Spec
INVARIANTS GroupKeyIsQual
CHECK_DEADLOCK FALSE
