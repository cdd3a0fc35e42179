\* A close signalled while the channel is being initialised.
CONSTANTS
  Runner = runner
  Reader = reader
  None = none
  ext = ext
  Others <- NoOthers
  Ops <- PlainOps
  Finals <- AllFinals
  Strays <- NoStrays
  MaxCalls <- OneEach
  MaxStrays = 0
  MaxSpurious = 0
  HandshakeTries = 1
SPECIFICATION FairSpec
PROPERTY ClosedSessionEnds
