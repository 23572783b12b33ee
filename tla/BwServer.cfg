CONSTANTS
  Clients = {c1}
  Requests = {r1,r2}
  Updaters = {u1,u2}
  NoClient = NoClient
  NoConn = NoConn
  Demands = {2}
  LoadShedding = FALSE
  Paced = TRUE
  InitialCredits = 1
  Warm = FALSE
  APercent = 10
  BPercent = 20
  Latencies = {}
  MaxTicks = 1
SPECIFICATION Spec
SYMMETRY Sym
INVARIANTS ConnMutex IssueIsCurrent SendsNeverBlock ClientsCounted RttSerial
PROPERTY LedgerSpec
