\* Refuted: a closed channel leaves the radio unavailable.
CONSTANTS
  Runner = runner
  None = none
  ext = ext
  r1 = r1
  r2 = r2
  r3 = r3
  Others <- NoOthers
  Requests <- OneRequest
  KindOf <- PowerOnly
  Card = "SIM"
  ResetLimit = 1
  MaxSessions = 1
  MaxTimeouts = 0
SPECIFICATION Spec
CHECK_DEADLOCK FALSE
INVARIANT UnavailableAfterClose
