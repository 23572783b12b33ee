CONSTANTS
  Requests = {r1,r2}
  MaxQLength = 2
  Grants = {1}
  TimerCredits = 3
  UseExpiration = FALSE
  UseQueueLength = FALSE
  MayFail = TRUE
SPECIFICATION FairSpec
PROPERTY QueueMoves
\* A call that fails gives nothing back, so the system may stop.
CHECK_DEADLOCK FALSE
