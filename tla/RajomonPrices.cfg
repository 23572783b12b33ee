CONSTANTS
  search = search
  n1 = n1
  n2 = n2
  Nothing = Nothing
  Methods = {search}
  Nodes = {n1, n2}
  callMap <- OneMethod
  Updates = {u1, u2}
  Requests = {r1}
  Prices = {0, 2}
  Tokens = {1}
  Gaps = {0, 5000, 20000}
  InitPrice = 0
  LoadShedding = TRUE
  Strategies = {"step", "expdecay"}
  LatencyThreshold = 10000
  PriceStep = 1
  GuidePrice <- NoGuide
  Decay <- DecayRate
  MaxRun = 2
  MaxOwn = 2
  MaxMoves = 2
SPECIFICATION FairSpec
INVARIANTS TypeOK ExactUnlessOverlapped ShedJustified
PROPERTIES Settles Relaxes
