CONSTANTS
  Requests = {r1,r2,r3}
  MaxQLength = 2
  Grants = {0,2}
  TimerCredits = 3
  UseExpiration = TRUE
  UseQueueLength = TRUE
  MayFail = TRUE
SPECIFICATION FairSpec
INVARIANTS TypeOK NoLostWakeup FirstAlone PendingExact
PROPERTY GateSpec
\* A call that fails gives nothing back, so the system may stop.
CHECK_DEADLOCK FALSE
