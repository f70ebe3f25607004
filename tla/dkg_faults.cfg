CONSTANTS
  N3 = 4
  MinQual = 1
  MaxAge = 0
  MaxClock = 1
  BadBroadcast = {}
  BadShares <- PerhapsOneBadShare
  MaxDeaths = 1
SPECIFICATION FairSpec
INVARIANTS TypeOK AgreedGroupKey KeyFromEveryTracer TracedByAll FailsOnlyDisturbed
PROPERTIES EveryoneEnds RoundsSpec
CHECK_DEADLOCK FALSE
