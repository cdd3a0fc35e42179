\* The pause of at_handshake and the unmatched OKs.
CONSTANTS
  Runner = runner
  Reader = reader
  None = none
  ext = ext
  Others <- NoOthers
  Ops <- PlainOps
  Finals <- AllFinals
  Strays <- NoStrays
  MaxCalls <- OneEach
  MaxStrays = 0
  MaxSpurious = 0
  HandshakeTries = 2
SPECIFICATION Spec
INVARIANT HandshakeDrained
