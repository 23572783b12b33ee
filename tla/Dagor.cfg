CONSTANTS
  Bmax = 2
  Umax = 2
  Priorities <- TwoClasses
  AlphaPercent = 50
  BetaPercent = 10
  Requests = {r1}
  Counters = {k1}
  MaxN = 2
SPECIFICATION FairSpec
INVARIANTS TypeOK LevelReached
PROPERTIES ClosedStays UpdateDone
