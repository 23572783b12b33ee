CONSTANTS
  Clients = {c1}
  Requests = {r1,r2}
  Updaters = {u1}
  NoClient = NoClient
  NoConn = NoConn
  Demands = {1}
  LoadShedding = TRUE
  Paced = TRUE
  InitialCredits = 1
  Warm = TRUE
  APercent = 10
  BPercent = 50
  Latencies = {2}
  MaxTicks = 0
SPECIFICATION FairSpec
INVARIANT TypeOK
PROPERTY Answered
