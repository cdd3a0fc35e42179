\* Refuted: a reader only closes its own session.
CONSTANTS
  Runner = runner
  None = none
  ext = ext
  r1 = r1
  r2 = r2
  r3 = r3
  Others <- NoOthers
  Requests <- OneRequest
  KindOf <- QueryOnly
  Card = "SIM"
  ResetLimit = 1
  MaxSessions = 2
  MaxTimeouts = 0
SPECIFICATION Spec
CHECK_DEADLOCK FALSE
PROPERTY OwnReaderOnly
