CONSTANTS
  Methods = {m1}
  Unlimited = {m2}
  NoMethod = NoMethod
  Calls = {c1, c2}
  MaxTokens = 2
  InitialRate = 1
  MaxRate = 2
  RateLimits = {5, 10, 20}
  Hz = 2
  Slo <- SloOfOne
  Latencies = {0, 1, 2}
  MaxHistory = 2
SPECIFICATION FairSpec
INVARIANTS TypeOK MeasuredAlike
PROPERTIES BucketSpec NotStarved
