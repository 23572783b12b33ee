CONSTANTS
  Me = me
  Requests = {r1,r2}
  Updaters = {u1}
  NoClient = NoClient
  NoConn = NoConn
  LoadShedding = TRUE
  InitialCredits = 1
  Warm = TRUE
  APercent = 10
  BPercent = 20
  Latencies = {2}
  MaxTicks = 0
  MaxQLength = 1
  TimerCredits = 1
  UseExpiration = FALSE
  UseQueueLength = TRUE
  MayFail = FALSE
SPECIFICATION Spec
SYMMETRY Sym
PROPERTY RegisteredOnce
\* A failed call gives no credit back, so the client may stop for good.
CHECK_DEADLOCK FALSE
