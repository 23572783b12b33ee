CONSTANTS
  UserCalls = {c1, c2}
  MethodPrices = {0, 2}
  InitTokens = 1
  RefillStep = 1
  Cap = 2
  Floor = 1
  Options <- AllKinds
SPECIFICATION FairUserSpec
PROPERTIES OverdraftEnds Answered
