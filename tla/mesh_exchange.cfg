CONSTANTS
  Nodes = {1, 2, 3}
  Rounds = 2
  PayloadLen <- UnitPayloads
  LenMod = 2
  Capacity = 1
  CanCrash = TRUE
SPECIFICATION FairSpec
INVARIANTS TypeOK FrameAligned OneRoundAhead
PROPERTIES NobodyHangs RoundsSpec
CHECK_DEADLOCK FALSE
