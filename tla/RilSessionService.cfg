\* Requests, radio state and SIM poll over two sessions.
CONSTANTS
  Runner = runner
  None = none
  ext = ext
  r1 = r1
  r2 = r2
  r3 = r3
  Others <- NoOthers
  Requests <- TwoRequests
  KindOf <- PowerAndPin
  Card = "SIM"
  ResetLimit = 1
  MaxSessions = 2
  MaxTimeouts = 1
SPECIFICATION Spec
CHECK_DEADLOCK FALSE
INVARIANTS
  TypeOK
  NotReadyIsPolled
PROPERTY ServiceSpec
