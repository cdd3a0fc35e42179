\* Who returns, and when, with fair threads and a modem that may fall silent.
CONSTANTS
  Runner = runner
  Reader = reader
  None = none
  ext = ext
  Others <- OneOther
  Ops <- HangOps
  Finals <- JustOk
  Strays <- NoStrays
  MaxCalls <- TwoAndOne
  MaxStrays = 0
  MaxSpurious = 0
  HandshakeTries = 1
SPECIFICATION FairSpec
INVARIANTS
  ResponseOwned
  NeverCommandPending
PROPERTIES
  TimedCallReturns
  CloseReleasesCallers
  ServedSessionEnds
