\* Liveness of a session that another thread may time out.
CONSTANTS
  Runner = runner
  None = none
  ext = ext
  r1 = r1
  r2 = r2
  r3 = r3
  Others <- OneOther
  Requests <- TwoRequests
  KindOf <- OnAndOff
  Card = "RUIM"
  ResetLimit = 0
  MaxSessions = 1
  MaxTimeouts = 1
SPECIFICATION FairSpec
CHECK_DEADLOCK FALSE
PROPERTIES
  ViewConverges
  QueuedAnswered
